---- MODULE Spec2Model ----
(***************************************************************************)
(* Verification model of the concurrent PageSpeed scanner (src/scanner.py) *)
(* and of the part of src/main.py that prepares its input.                 *)
(*                                                                         *)
(* Time is counted in ticks, TicksPerSecond ticks to the second.  A rate   *)
(* is a rational number of requests per second, rate / RateDen.  Token     *)
(* balances are kept in units of 1 / (RateDen * TicksPerSecond) token, so  *)
(* that the refill "elapsed * rate" of the code is exact integer           *)
(* arithmetic: one tick at rate / RateDen adds `rate` units.               *)
(***************************************************************************)
EXTENDS Integers, Sequences, FiniteSets, TLC

\* ------------------------------------------------------------------------
\* Bounds of the model
\* ------------------------------------------------------------------------
\* ticks to the second
TicksPerSecond == 1
\* the rates are 1 / RateDen, 2 / RateDen, ..., MaxRateNum / RateDen per second
RateDen == 2
MaxRateNum == 4
\* calls of acquire() by a worker that is followed at the limiter only
MaxCalls == 2
\* last tick of the limiter's logged clock
MaxClockLimiter == 4
\* rows of the URL file
MaxUrls == 2
\* largest max_workers
MaxWorkers == 2
\* characters of a URL's path
MaxPathLen == 2
\* URLs given to validate_urls at once
MaxRawUrls == 2
\* rows of the CSV file below its header
MaxRows == 1
\* audits with savings among a payload's auditRefs
MaxRefs == 11
\* auditRefs of a payload with audits of every kind
MaxMixedRefs == 3

\* ------------------------------------------------------------------------
\* Program constants
\* ------------------------------------------------------------------------
\* a retry budget one larger than the program's (C8 depends on the budget)
MaxRetriesOneMore == 3 + 1

MAX_RETRIES == 3
RETRY_BASE_DELAY == 4

MAX_OPPORTUNITIES == 10
MAX_DIAGNOSTICS == 5

CATEGORIES == <<"performance", "accessibility", "best-practices", "seo">>
STRATEGIES == <<"mobile", "desktop">>

Threads == {"w1", "w2"}
NoThread == "free"

\* ------------------------------------------------------------------------
\* Python values
\* ------------------------------------------------------------------------
\* an optional value: <<>> is Python's None, <<v>> is the value v
Null == <<>>
Some(v) == <<v>>

\* a dict is a function on its keys; {} and [] are the empty function
EmptyDict == <<>>
Has(d, k) == k \in DOMAIN d
\* d.get(k, default)
Get(d, k, default) == IF Has(d, k) THEN d[k] ELSE default
\* d.get(k)
GetOpt(d, k) == IF Has(d, k) THEN Some(d[k]) ELSE Null

\* what a call has returned so far
Running == [ret |-> "running"]
None == [ret |-> "None"]
Json(data) == [ret |-> "json", data |-> data]
Raised == [ret |-> "raised"]

VARIABLES
    \* _RateLimiter
    rate,          \* self._rate, as the numerator of rate / RateDen
    tokens,        \* self._tokens, in units of 1 / (RateDen * TicksPerSecond)
    last_refill,   \* self._last_refill, in ticks
    lock,          \* self._lock: the thread holding it, or NoThread
    clock,         \* time.monotonic(), in ticks
    \* threads calling acquire()
    pc,            \* position of each thread
    wake,          \* earliest tick at which a sleeping thread resumes
    calls,         \* number of acquire() calls each thread has begun
    debitLog,      \* clock readings of the successful debits, in order
    reqLog,        \* clock readings of the HTTP requests, in order
    debits,        \* number of tokens each thread has debited
    \* _fetch_pagespeed, one call per thread
    attempt,       \* the loop variable of line 296
    requests,      \* number of HTTP requests the call has issued
    lastReq,       \* the tick of the latest request of the job followed
    resps,         \* what the transport answered, in order
    outcome,       \* the value returned, or Running
    \* main and scan_urls
    csv_full_urls, \* the URLs read from the CSV (main.py line 133-144)
    urls,          \* the argument `urls` of scan_urls
    max_workers,   \* the argument `max_workers` of scan_urls
    jobs,          \* the list `jobs` of lines 675-679
    futState,      \* each job's future: queued, running, finished, collected
    fetched,       \* what _fetch_pagespeed returned to each job
    future,        \* what _scan_single returned to each job's future
    order,         \* the jobs in the order as_completed yielded them
    results,       \* the list `results`
    phase,         \* "pool" inside the executor block, "returned" at the end
    results_lock,  \* _results_lock: the thread holding it, or NoThread
    worker,        \* the pool thread that is inside each job, 0 when none is
    \* validate_urls
    raw_urls,      \* the argument `urls` of validate_urls
    vpos,          \* index in raw_urls of the URL the loop is at
    vstep,         \* the step of the loop body that comes next
    clean,         \* the local `clean`
    resolved,      \* the local `resolved`
    valid,         \* the list `valid`
    skipped        \* the list `skipped`

limiterVars == <<rate, tokens, last_refill, lock, clock>>
callerVars == <<pc, wake, calls, debitLog, reqLog, debits>>
fetchVars == <<attempt, requests, lastReq, resps, outcome>>
scanVars == <<csv_full_urls, urls, max_workers, jobs, futState, fetched, future,
              order, results, phase, results_lock, worker>>
validateVars == <<raw_urls, vpos, vstep, clean, resolved, valid, skipped>>
vars == <<limiterVars, callerVars, fetchVars, scanVars,
                   validateVars>>

\* ------------------------------------------------------------------------
\* Arithmetic helpers
\* ------------------------------------------------------------------------
Min(a, b) == IF a <= b THEN a ELSE b
Max(a, b) == IF a >= b THEN a ELSE b
CeilDiv(a, b) == (a + b - 1) \div b

RECURSIVE Pow2(_)
Pow2(n) == IF n <= 0 THEN 1 ELSE 2 * Pow2(n - 1)

\* validate_urls is not running
NoValidate ==
    /\ raw_urls = <<>>
    /\ vpos = 0
    /\ vstep = "none"
    /\ clean = <<>>
    /\ resolved = <<>>
    /\ valid = <<>>
    /\ skipped = <<>>

\* no scan is in progress
NoScan ==
    /\ csv_full_urls = <<>>
    /\ urls = <<>>
    /\ max_workers = 1
    /\ jobs = <<>>
    /\ futState = <<>>
    /\ fetched = <<>>
    /\ future = <<>>
    /\ order = <<>>
    /\ results = <<>>
    /\ phase = "none"
    /\ results_lock = NoThread
    /\ worker = <<>>

\* ------------------------------------------------------------------------
\* _RateLimiter
\* ------------------------------------------------------------------------
Rates == 1..MaxRateNum

\* one token (the literal 1.0 of lines 112-113) in balance units
OneToken == RateDen * TicksPerSecond

\* self._rate as a token balance (the cap of line 108, the start of line 98)
Capacity(r) == r * TicksPerSecond

\* a refill that is not capped at the capacity (C4 depends on the cap)
RefillUncapped(r, tok, last, now) == tok + (now - last) * r

\* lines 106-109: min(self._rate, self._tokens + elapsed * self._rate)
Refill(r, tok, last, now) == Min(Capacity(r), tok + (now - last) * r)

\* a check that lets a caller through on any positive balance (C22
\* depends on the comparison with 1.0)
HasAnyToken(tok) == tok > 0

\* line 112: self._tokens >= 1.0
HasToken(tok) == tok >= OneToken

\* line 117: time.sleep(1.0 / self._rate), rounded up to whole ticks
NapTicks(r) == CeilDiv(RateDen * TicksPerSecond, r)

\* a `with` that does not wait for the lock to be free (C23 depends on the
\* lock being exclusive)
LockAcquireNoWait(t) ==
    /\ pc[t] = "acq"
    /\ lock' = t
    /\ pc' = [pc EXCEPT ![t] = "cs"]
    /\ UNCHANGED <<rate, tokens, last_refill, clock>>
    /\ UNCHANGED <<wake, calls, debitLog, reqLog, debits, fetchVars, scanVars,
                   validateVars>>

\* line 104: `with self._lock:` is entered
LockAcquire(t) ==
    /\ pc[t] = "acq"
    /\ lock = NoThread
    /\ lock' = t
    /\ pc' = [pc EXCEPT ![t] = "cs"]
    /\ UNCHANGED <<rate, tokens, last_refill, clock>>
    /\ UNCHANGED <<wake, calls, debitLog, reqLog, debits, fetchVars, scanVars,
                   validateVars>>

\* lines 105-114, the token is there: refill, debit, release, return
Debit(t) ==
    /\ pc[t] = "cs"
    /\ lock = t
    /\ LET refilled == Refill(rate, tokens, last_refill, clock)
       IN /\ HasToken(refilled)
          /\ tokens' = refilled - OneToken
    /\ last_refill' = clock
    /\ lock' = NoThread
    /\ debits' = [debits EXCEPT ![t] = @ + 1]
    /\ pc' = [pc EXCEPT ![t] = "send"]
    /\ UNCHANGED <<rate, clock, wake, calls, reqLog, fetchVars, scanVars,
                   validateVars>>

\* the debit, its clock reading logged
AcquireDebit(t) == Debit(t) /\ debitLog' = Append(debitLog, clock)

\* a limiter whose sleep is inside the `with` block (C24 depends on the
\* sleep being outside it)
AcquireNapLocked(t) ==
    /\ pc[t] = "cs"
    /\ lock = t
    /\ LET refilled == Refill(rate, tokens, last_refill, clock)
       IN /\ ~HasToken(refilled)
          /\ tokens' = refilled
    /\ last_refill' = clock
    /\ lock' = lock
    /\ pc' = [pc EXCEPT ![t] = "nap"]
    /\ wake' = [wake EXCEPT ![t] = clock + NapTicks(rate)]
    /\ UNCHANGED <<rate, clock, calls, debitLog, reqLog, debits, fetchVars, scanVars,
                   validateVars>>

\* lines 105-112 and 117, no token: refill, release, sleep 1 / rate
AcquireNap(t) ==
    /\ pc[t] = "cs"
    /\ lock = t
    /\ LET refilled == Refill(rate, tokens, last_refill, clock)
       IN /\ ~HasToken(refilled)
          /\ tokens' = refilled
    /\ last_refill' = clock
    /\ lock' = NoThread
    /\ pc' = [pc EXCEPT ![t] = "nap"]
    /\ wake' = [wake EXCEPT ![t] = clock + NapTicks(rate)]
    /\ UNCHANGED <<rate, clock, calls, debitLog, reqLog, debits, fetchVars, scanVars,
                   validateVars>>

\* line 117 returns: back to the top of the `while True`
NapOver(t) ==
    /\ pc[t] = "nap"
    /\ clock >= wake[t]
    /\ pc' = [pc EXCEPT ![t] = "acq"]
    /\ UNCHANGED <<limiterVars, wake, calls, debitLog, reqLog, debits, fetchVars, scanVars,
                   validateVars>>

\* the monotonic clock advances by one tick
Tick ==
    /\ clock < MaxClockLimiter
    /\ clock' = clock + 1
    /\ UNCHANGED <<rate, tokens, last_refill, lock, callerVars, fetchVars, scanVars,
                   validateVars>>

\* how far back an instant is told apart: the longest back-off, and at
\* least the second after which line 107 caps the refill
Horizon == Max(1, RETRY_BASE_DELAY * Pow2(MAX_RETRIES - 2)) * TicksPerSecond

\* the clock of the relative-time specifications: instead of the clock moving
\* forward, every stored instant moves one tick into the past.  An instant
\* further back than its horizon is not told apart from the horizon: line 107
\* caps the refill at one second's worth, and no sleep is longer than Horizon.
TickRel ==
    /\ last_refill' = Max(last_refill - 1, clock - TicksPerSecond)
    /\ wake' = [t \in Threads |-> Max(wake[t] - 1, clock)]
    /\ lastReq' = Max(lastReq - 1, clock - Horizon)
    /\ UNCHANGED <<rate, tokens, lock, clock, pc, calls, debitLog, reqLog, debits>>
    /\ UNCHANGED <<attempt, requests, resps, outcome>>
    /\ UNCHANGED <<scanVars, validateVars>>

\* a debit under the relative clock: the log of debit instants is not kept
AcquireDebitRel(t) == Debit(t) /\ UNCHANGED debitLog

\* ------------------------------------------------------------------------
\* Workers as the limiter sees them: acquire(), then the request
\* ------------------------------------------------------------------------
\* line 302: requests.get is called
Request(t) ==
    /\ pc[t] = "send"
    /\ requests' = [requests EXCEPT ![t] = @ + 1]
    /\ pc' = [pc EXCEPT ![t] = "wait"]
    /\ UNCHANGED <<limiterVars, wake, calls, debitLog, debits>>
    /\ UNCHANGED <<attempt, resps, outcome>>
    /\ UNCHANGED <<scanVars, validateVars>>

\* the request, its clock reading logged
Send(t) == Request(t) /\ reqLog' = Append(reqLog, clock) /\ UNCHANGED lastReq

\* the request under the relative clock: the log is not kept
SendRel(t) == Request(t) /\ UNCHANGED <<reqLog, lastReq>>

\* the request of a worker whose job is not followed is answered: the worker
\* is free for its next call of acquire() (a retry, or its next job)
Answered(t) ==
    /\ pc[t] = "wait"
    /\ pc' = [pc EXCEPT ![t] = "idle"]
    /\ UNCHANGED <<limiterVars, wake, calls, debitLog, reqLog, debits, fetchVars, scanVars,
                   validateVars>>

\* a thread calls acquire()
Call(t) ==
    /\ pc[t] = "idle"
    /\ calls[t] < MaxCalls
    /\ calls' = [calls EXCEPT ![t] = @ + 1]
    /\ pc' = [pc EXCEPT ![t] = "acq"]
    /\ UNCHANGED <<limiterVars, wake, debitLog, reqLog, debits, fetchVars, scanVars,
                   validateVars>>

\* no call of _fetch_pagespeed is in progress
NoFetch ==
    /\ attempt = [t \in Threads |-> 0]
    /\ requests = [t \in Threads |-> 0]
    /\ lastReq = -Horizon
    /\ resps = [t \in Threads |-> <<>>]
    /\ outcome = [t \in Threads |-> Running]

\* _RateLimiter.__init__ (lines 96-99) and its callers before their first call
LimiterInit ==
    /\ rate \in Rates
    /\ tokens = Capacity(rate)
    /\ last_refill = 0
    /\ lock = NoThread
    /\ clock = 0
    /\ pc = [t \in Threads |-> "idle"]
    /\ wake = [t \in Threads |-> 0]
    /\ calls = [t \in Threads |-> 0]
    /\ debitLog = <<>>
    /\ reqLog = <<>>
    /\ debits = [t \in Threads |-> 0]
    /\ NoFetch
    /\ NoScan
    /\ NoValidate

LimiterNext ==
    \/ \E t \in Threads : Call(t)
    \/ \E t \in Threads : LockAcquire(t)
    \/ \E t \in Threads : AcquireDebit(t)
    \/ \E t \in Threads : AcquireNap(t)
    \/ \E t \in Threads : NapOver(t)
    \/ \E t \in Threads : Send(t)
    \/ \E t \in Threads : Answered(t)
    \/ Tick

SpecLimiter == LimiterInit /\ [][LimiterNext]_vars

LimiterLiveNext ==
    \/ \E t \in Threads : Call(t)
    \/ \E t \in Threads : LockAcquire(t)
    \/ \E t \in Threads : AcquireDebitRel(t)
    \/ \E t \in Threads : AcquireNap(t)
    \/ \E t \in Threads : NapOver(t)
    \/ \E t \in Threads : SendRel(t)
    \/ \E t \in Threads : Answered(t)
    \/ TickRel

\* time advances, a runnable thread runs, and the lock is granted fairly
LimiterFairness ==
    /\ WF_vars(TickRel)
    /\ \A t \in Threads :
        /\ SF_vars(LockAcquire(t))
        /\ WF_vars(AcquireDebitRel(t))
        /\ WF_vars(AcquireNap(t))
        /\ WF_vars(NapOver(t))
        /\ WF_vars(SendRel(t))
        /\ WF_vars(Answered(t))

SpecLimiterLive == LimiterInit /\ [][LimiterLiveNext]_vars /\ LimiterFairness

\* ------------------------------------------------------------------------
\* _fetch_pagespeed
\* ------------------------------------------------------------------------
RETRYABLE_STATUS_CODES == {400, 429, 500, 502, 503}

\* an HTTP response: its status and its JSON body
Http(status, body) == [kind |-> "http", status |-> status, body |-> body]
\* the exceptions requests.get raises instead of answering
ConnectionError == [kind |-> "ConnectionError", status |-> 0, body |-> EmptyDict]
Timeout == [kind |-> "Timeout", status |-> 0, body |-> EmptyDict]
RequestException == [kind |-> "RequestException", status |-> 0, body |-> EmptyDict]

\* an error body, and the body of a successful audit of a page
ErrorBody == [error |-> [message |-> "error"]]
SampleBody ==
    [lighthouseResult |->
        [categories |->
            [c \in {"performance", "accessibility", "best-practices", "seo"} |->
                [score |-> IF c = "performance" THEN 873 ELSE 1000]],
         audits |-> EmptyDict]]

\* a body that is not JSON: response.json() raises exc, which the installed
\* requests derives from RequestException (2.27 and later) or from ValueError
\* alone (before)
NotJson(exc) == [not_json |-> exc]

\* what the transport can answer to one request; 300 Multiple Choices is a
\* status below 400 that requests does not follow as a redirect
Responses == {Http(200, SampleBody), Http(429, ErrorBody), Http(404, ErrorBody),
              Http(504, ErrorBody), Http(300, SampleBody),
              Http(200, NotJson("RequestException")),
              Http(200, NotJson("ValueError")),
              ConnectionError, Timeout, RequestException}

\* line 303: response.raise_for_status() raises HTTPError
RaisesForStatus(status) == status >= 400 /\ status < 600

\* a fetch that retries no HTTP status (C14 depends on the retries)
RetryNoStatus(status, a) == FALSE

\* a retry decision that ignores the status code (C10 depends on the set)
RetryAnyStatus(status, a) == a < MAX_RETRIES

\* line 315: status in RETRYABLE_STATUS_CODES and attempt < MAX_RETRIES
RetryStatus(status, a) == status \in RETRYABLE_STATUS_CODES /\ a < MAX_RETRIES

\* a transport failure that is retried on every attempt (C26 depends on the
\* final attempt ending the job)
RetryTransportAlways(a) == TRUE

\* lines 332 and 347: attempt < MAX_RETRIES
RetryTransport(a) == a < MAX_RETRIES

\* a handler that retries the other request errors too (C27 depends on
\* lines 360-365 returning at once)
ClassifyRetryOther(r, a) ==
    CASE r.kind = "http" ->
            IF ~RaisesForStatus(r.status)
            THEN IF ~Has(r.body, "not_json") THEN "return_json"
                 ELSE IF r.body["not_json"] = "RequestException"
                      THEN "return_none" ELSE "raise"
            ELSE IF RetryStatus(r.status, a) THEN "retry" ELSE "return_none"
      [] OTHER -> IF RetryTransport(a) THEN "retry" ELSE "return_none"

\* lines 301-365: what attempt a does with the transport's answer r
Classify(r, a) ==
    CASE r.kind = "http" ->
            IF ~RaisesForStatus(r.status)
            THEN IF ~Has(r.body, "not_json") THEN "return_json"
                 ELSE IF r.body["not_json"] = "RequestException"
                      THEN "return_none" ELSE "raise"
            ELSE IF RetryStatus(r.status, a) THEN "retry" ELSE "return_none"
      [] r.kind \in {"ConnectionError", "Timeout"} ->
            IF RetryTransport(a) THEN "retry" ELSE "return_none"
      [] OTHER -> "return_none"

\* a delay that does not grow with the attempt (C9 depends on the doubling)
BackoffFlat(a) == RETRY_BASE_DELAY

\* a delay whose exponent is the attempt number (C25 depends on the
\* exponent attempt - 1)
BackoffFromAttempt(a) == RETRY_BASE_DELAY * Pow2(a)

\* lines 316, 333, 348: wait = RETRY_BASE_DELAY * (2 ** (attempt - 1)), seconds
Backoff(a) == RETRY_BASE_DELAY * Pow2(a - 1)

\* line 296: range(1, MAX_RETRIES + 1)
AttemptRange == 1..MAX_RETRIES

\* an attempt that goes straight to the request (C7 depends on acquire)
AttemptStartNoAcquire == "send"

\* lines 297-299: every pass of the loop begins with rate_limiter.acquire()
AttemptStart == "acq"

\* line 302: the job that is followed calls requests.get
JobSend(t) == Request(t) /\ lastReq' = clock /\ UNCHANGED reqLog

\* lines 302-365: the transport answers r and the attempt ends
Respond(t, r) ==
    /\ pc[t] = "wait"
    /\ resps' = [resps EXCEPT ![t] = Append(@, r)]
    /\ LET what == Classify(r, attempt[t])
       IN CASE what = "return_json" ->
                 /\ outcome' = [outcome EXCEPT ![t] = Json(r.body)]
                 /\ pc' = [pc EXCEPT ![t] = "done"]
                 /\ wake' = wake
            [] what = "retry" ->
                 /\ outcome' = outcome
                 /\ pc' = [pc EXCEPT ![t] = "backoff"]
                 /\ wake' = [wake EXCEPT ![t] =
                                clock + Backoff(attempt[t]) * TicksPerSecond]
            [] what = "raise" ->
                 /\ outcome' = [outcome EXCEPT ![t] = Raised]
                 /\ pc' = [pc EXCEPT ![t] = "done"]
                 /\ wake' = wake
            [] OTHER ->
                 /\ outcome' = [outcome EXCEPT ![t] = None]
                 /\ pc' = [pc EXCEPT ![t] = "done"]
                 /\ wake' = wake
    /\ UNCHANGED <<limiterVars, calls, debitLog, reqLog, debits>>
    /\ UNCHANGED <<attempt, requests, lastReq>>
    /\ UNCHANGED <<scanVars, validateVars>>

\* lines 322-323, 339-340, 354-355: time.sleep(wait) returns and `continue`
\* takes the next value of the range, or leaves the loop for line 367
BackoffOver(t) ==
    /\ pc[t] = "backoff"
    /\ clock >= wake[t]
    /\ IF attempt[t] + 1 \in AttemptRange
       THEN /\ attempt' = [attempt EXCEPT ![t] = @ + 1]
            /\ pc' = [pc EXCEPT ![t] = AttemptStart]
            /\ outcome' = outcome
       ELSE /\ attempt' = attempt
            /\ pc' = [pc EXCEPT ![t] = "done"]
            /\ outcome' = [outcome EXCEPT ![t] = None]
    /\ UNCHANGED <<limiterVars, wake, calls, debitLog, reqLog, debits>>
    /\ UNCHANGED <<requests, lastReq, resps>>
    /\ UNCHANGED <<scanVars, validateVars>>

\* the worker whose call of _fetch_pagespeed is followed attempt by attempt;
\* the other workers are followed at the limiter and the request only
Job == "w1"
Peers == Threads \ {Job}

\* a scan's limiter (line 660); the job enters the loop of line 296 with
\* attempt = 1 and calls acquire() (lines 298-299)
FetchInit ==
    /\ rate \in Rates
    /\ tokens = Capacity(rate)
    /\ last_refill = 0
    /\ lock = NoThread
    /\ clock = 0
    /\ pc = [t \in Threads |-> IF t = Job THEN AttemptStart ELSE "idle"]
    /\ wake = [t \in Threads |-> 0]
    /\ calls = [t \in Threads |-> 0]
    /\ debitLog = <<>>
    /\ reqLog = <<>>
    /\ debits = [t \in Threads |-> 0]
    /\ attempt = [t \in Threads |-> IF t = Job THEN 1 ELSE 0]
    /\ requests = [t \in Threads |-> 0]
    /\ lastReq = -Horizon
    /\ resps = [t \in Threads |-> <<>>]
    /\ outcome = [t \in Threads |-> Running]
    /\ NoScan
    /\ NoValidate

FetchNext ==
    \/ \E t \in Threads : LockAcquire(t)
    \/ \E t \in Threads : AcquireDebitRel(t)
    \/ \E t \in Threads : AcquireNap(t)
    \/ \E t \in Threads : NapOver(t)
    \/ JobSend(Job)
    \/ \E r \in Responses : Respond(Job, r)
    \/ BackoffOver(Job)
    \/ \E t \in Peers : Call(t)
    \/ \E t \in Peers : SendRel(t)
    \/ \E t \in Peers : Answered(t)
    \/ TickRel

SpecFetch == FetchInit /\ [][FetchNext]_vars

\* ------------------------------------------------------------------------
\* Extraction helpers.  A score 0.0-1.0 and a proportion are carried in
\* thousandths, so that int(score * 100) is thousandths \div 10.
\* ------------------------------------------------------------------------
\* JSON null
JsonNull == [null |-> TRUE]

Range(f) == {f[i] : i \in DOMAIN f}

LAB_METRIC_IDS ==
    [id \in {"first-contentful-paint", "largest-contentful-paint",
             "cumulative-layout-shift", "total-blocking-time", "speed-index",
             "interactive"} |->
        CASE id = "first-contentful-paint" -> "FCP"
          [] id = "largest-contentful-paint" -> "LCP"
          [] id = "cumulative-layout-shift" -> "CLS"
          [] id = "total-blocking-time" -> "TBT"
          [] id = "speed-index" -> "Speed Index"
          [] OTHER -> "TTI"]

FIELD_METRIC_KEYS ==
    [key \in {"FIRST_CONTENTFUL_PAINT_MS", "LARGEST_CONTENTFUL_PAINT_MS",
              "CUMULATIVE_LAYOUT_SHIFT_SCORE", "INTERACTION_TO_NEXT_PAINT",
              "EXPERIMENTAL_TIME_TO_FIRST_BYTE", "FIRST_INPUT_DELAY_MS"} |->
        CASE key = "FIRST_CONTENTFUL_PAINT_MS" -> "FCP"
          [] key = "LARGEST_CONTENTFUL_PAINT_MS" -> "LCP"
          [] key = "CUMULATIVE_LAYOUT_SHIFT_SCORE" -> "CLS"
          [] key = "INTERACTION_TO_NEXT_PAINT" -> "INP"
          [] key = "EXPERIMENTAL_TIME_TO_FIRST_BYTE" -> "TTFB"
          [] OTHER -> "FID"]

\* the scores, in thousandths, whose product with 100 in binary floating
\* point falls just below the integer: 0.29 * 100 = 28.999999999999996
TruncatedScores == {290, 570, 580}

\* lines 411 and 437: int(score * 100), score in thousandths
Percent(score) ==
    IF score \in TruncatedScores THEN (score * 100) \div 1000 - 1
    ELSE (score * 100) \div 1000

\* lines 474-482: round(proportion * 100, 1), from thousandths to tenths of
\* a percent
RoundPercent(proportion) == (proportion * 100 * 10 + 500) \div 1000

\* data.get("lighthouseResult", {}) is None: the .get that follows raises
\* AttributeError (lines 406, 425, 499-503, 548-553)
ExtractionRaises(data) ==
    Has(data, "lighthouseResult") /\ data["lighthouseResult"] = JsonNull

\* an extraction in which one missing category voids the scores of all
\* (C19 depends on the categories being read one by one)
AllOrNothingScores(data) ==
    LET categories == Get(Get(data, "lighthouseResult", EmptyDict),
                          "categories", EmptyDict)
        complete == \A cat \in Range(CATEGORIES) :
                        Has(Get(categories, cat, EmptyDict), "score")
    IN [cat \in Range(CATEGORIES) |->
           IF complete THEN Some(Percent(categories[cat]["score"])) ELSE Null]

\* lines 405-415
ExtractCategoryScores(data) ==
    LET categories == Get(Get(data, "lighthouseResult", EmptyDict),
                          "categories", EmptyDict)
    IN [cat \in Range(CATEGORIES) |->
           LET cat_data == Get(categories, cat, EmptyDict)
           IN IF cat_data # EmptyDict /\ Has(cat_data, "score")
              THEN Some(Percent(cat_data["score"]))
              ELSE Null]

\* the label a metric's key stands for
KeyOf(ids, label) == CHOOSE k \in DOMAIN ids : ids[k] = label

\* lines 425-440; the key f"lab_{label}{suffix}" is <<"lab_", label, suffix>>
ExtractLabMetrics(data) ==
    LET audits == Get(Get(data, "lighthouseResult", EmptyDict),
                      "audits", EmptyDict)
    IN [key \in {"lab_"} \X Range(LAB_METRIC_IDS) \X {"", "_value", "_score"} |->
           LET audit == Get(audits, KeyOf(LAB_METRIC_IDS, key[2]), EmptyDict)
           IN CASE key[3] = "" -> GetOpt(audit, "displayValue")
                [] key[3] = "_value" -> GetOpt(audit, "numericValue")
                [] OTHER -> IF Has(audit, "score")
                            THEN Some(Percent(audit["score"])) ELSE Null]

\* line 466: metrics.get(api_key_name, {})
FieldMetric(data, label) ==
    Get(Get(Get(data, "loadingExperience", EmptyDict), "metrics", EmptyDict),
        KeyOf(FIELD_METRIC_KEYS, label), EmptyDict)

\* lines 467-473: the metric is there and has its three distributions
HasDistributions(data, label) ==
    /\ FieldMetric(data, label) # EmptyDict
    /\ Len(Get(FieldMetric(data, label), "distributions", <<>>)) = 3

\* the position of a distribution among GOOD / NEEDS_IMPROVEMENT / POOR
DistributionIndex(suffix) ==
    CASE suffix = "_good" -> 1
      [] suffix = "_needs_improvement" -> 2
      [] OTHER -> 3

\* lines 452-487; the key f"field_{label}{suffix}" is <<"field_", label,
\* suffix>>, the key "field_overall" is <<"field_", "overall", "">>
ExtractFieldData(data) ==
    LET loading_exp == Get(data, "loadingExperience", EmptyDict)
        labels == Range(FIELD_METRIC_KEYS)
        keys ==
            ({"field_"} \X {"overall", "origin_fallback"} \X {""})
            \cup ({"field_"} \X labels \X {"_category", "_percentile"})
            \cup ({"field_"} \X {l \in labels : HasDistributions(data, l)}
                      \X {"_good", "_needs_improvement", "_poor"})
    IN [key \in keys |->
           CASE key[2] = "overall" -> GetOpt(loading_exp, "overall_category")
             [] key[2] = "origin_fallback" ->
                    Some(Get(loading_exp, "origin_fallback", FALSE))
             [] key[3] = "_category" ->
                    GetOpt(FieldMetric(data, key[2]), "category")
             [] key[3] = "_percentile" ->
                    GetOpt(FieldMetric(data, key[2]), "percentile")
             [] OTHER ->
                    Some(RoundPercent(
                        Get(FieldMetric(data, key[2])["distributions"]
                                [DistributionIndex(key[3])],
                            "proportion", 0)))]

\* the performance category's auditRefs (lines 500-505 and 549-554)
AuditRefs(data) ==
    Get(Get(Get(Get(data, "lighthouseResult", EmptyDict),
                "categories", EmptyDict), "performance", EmptyDict),
        "auditRefs", <<>>)

Audits(data) == Get(Get(data, "lighthouseResult", EmptyDict), "audits", EmptyDict)

\* x or y, for numbers: the first if it is not 0 or None, else the second
OrElse(x, y) == IF x # Null /\ x # Some(0) THEN x ELSE y

\* lines 518-532: the record of one opportunity
Opportunity(audit_id, audit) ==
    LET savings_ms == OrElse(GetOpt(Get(audit, "details", EmptyDict),
                                    "overallSavingsMs"),
                             GetOpt(audit, "numericValue"))
    IN [id |-> audit_id,
        title |-> Get(audit, "title", audit_id),
        description |-> Get(audit, "description", ""),
        savings_ms |-> IF savings_ms # Null /\ savings_ms # Some(0)
                       THEN savings_ms[1] ELSE 0,
        display_value |-> Get(audit, "displayValue", ""),
        score |-> GetOpt(audit, "score")]

\* lines 565-573: the record of one diagnostic
Diagnostic(audit_id, audit) ==
    [id |-> audit_id,
     title |-> Get(audit, "title", audit_id),
     description |-> Get(audit, "description", ""),
     display_value |-> Get(audit, "displayValue", ""),
     score |-> GetOpt(audit, "score")]

\* lines 509-516 and 557-563: the refs of a group whose audit does not pass
RECURSIVE RefsOfGroup(_, _, _)
RefsOfGroup(refs, audits, group) ==
    IF refs = <<>> THEN <<>>
    ELSE LET ref == Head(refs)
             rest == RefsOfGroup(Tail(refs), audits, group)
             audit == Get(audits, Get(ref, "id", ""), EmptyDict)
         IN IF GetOpt(ref, "group") # Some(group) THEN rest
            ELSE IF GetOpt(audit, "score") = Some(1000) THEN rest
            ELSE <<ref>> \o rest

\* opportunities left in the order of the auditRefs (C20 depends on the
\* sort)
KeepOrder(opps) == opps

\* line 535: list.sort(key=savings_ms, reverse=True), which is stable
RECURSIVE SortBySavings(_)
SortBySavings(opps) ==
    IF opps = <<>> THEN <<>>
    ELSE LET n == Len(opps)
             sorted == SortBySavings(SubSeq(opps, 1, n - 1))
             o == opps[n]
             before == {i \in DOMAIN sorted : sorted[i].savings_ms >= o.savings_ms}
             k == Cardinality(before)
         IN SubSeq(sorted, 1, k) \o <<o>> \o SubSeq(sorted, k + 1, n - 1)

Truncate(seq, n) == SubSeq(seq, 1, Min(n, Len(seq)))

\* lines 499-536
ExtractOpportunities(data) ==
    LET audits == Audits(data)
        refs == RefsOfGroup(AuditRefs(data), audits, "opportunity")
        opportunities ==
            [i \in DOMAIN refs |->
                Opportunity(Get(refs[i], "id", ""),
                            Get(audits, Get(refs[i], "id", ""), EmptyDict))]
    IN Truncate(SortBySavings(opportunities), MAX_OPPORTUNITIES)

\* lines 548-575
ExtractDiagnostics(data) ==
    LET audits == Audits(data)
        refs == RefsOfGroup(AuditRefs(data), audits, "diagnostics")
        diagnostics ==
            [i \in DOMAIN refs |->
                Diagnostic(Get(refs[i], "id", ""),
                           Get(audits, Get(refs[i], "id", ""), EmptyDict))]
    IN Truncate(diagnostics, MAX_DIAGNOSTICS)

\* ------------------------------------------------------------------------
\* _scan_single
\* ------------------------------------------------------------------------
\* a record of a failed job that reports 0 for performance (C3 depends on
\* the nulls)
ZeroRecord(url, strategy) ==
    [url |-> url, strategy |-> strategy,
     lab_metrics |-> EmptyDict, field_data |-> EmptyDict,
     opportunities |-> <<>>, diagnostics |-> <<>>]
    @@ [cat \in Range(CATEGORIES) |-> IF cat = "performance" THEN Some(0) ELSE Null]

\* lines 595-606 and 711-722: the record of a job that produced no data
NullRecord(url, strategy) ==
    [url |-> url, strategy |-> strategy,
     lab_metrics |-> EmptyDict, field_data |-> EmptyDict,
     opportunities |-> <<>>, diagnostics |-> <<>>]
    @@ [cat \in Range(CATEGORIES) |-> Null]

\* lines 608-622: the record extracted from a payload
DataRecord(url, strategy, data) ==
    [url |-> url, strategy |-> strategy,
     lab_metrics |-> ExtractLabMetrics(data),
     field_data |-> ExtractFieldData(data),
     opportunities |-> ExtractOpportunities(data),
     diagnostics |-> ExtractDiagnostics(data)]
    @@ ExtractCategoryScores(data)

\* lines 301-367 run to their end on a transport that answers script[a] to
\* attempt a: the value _fetch_pagespeed returns
RECURSIVE FetchFrom(_, _)
FetchFrom(script, a) ==
    LET what == Classify(script[a], a)
    IN CASE what = "return_json" -> Json(script[a].body)
         [] what = "retry" ->
              IF a + 1 \in AttemptRange THEN FetchFrom(script, a + 1) ELSE None
         [] what = "raise" -> Raised
         [] OTHER -> None

FetchPagespeed(script) == FetchFrom(script, 1)

Value(record) == [ret |-> "value", value |-> record]

\* lines 592-622: what the job's future ends with
ScanSingle(url, strategy, data) ==
    IF data = Raised THEN Raised
    ELSE IF data = None THEN Value(NullRecord(url, strategy))
    ELSE IF ExtractionRaises(data.data) THEN Raised
    ELSE Value(DataRecord(url, strategy, data.data))

\* ------------------------------------------------------------------------
\* main (the part that prepares the URL list) and scan_urls
\* ------------------------------------------------------------------------
UrlNames == {"https://a.example/", "https://b.example/"}

\* a lighthouseResult of null: extraction raises on it
BrokenBody == [lighthouseResult |-> JsonNull]

\* what the transport can answer to one request of a scan
ScanResponses == {Http(200, SampleBody), Http(200, BrokenBody),
                  Http(200, NotJson("ValueError")),
                  Http(429, ErrorBody), Http(404, ErrorBody)}

\* the transport's answers to the successive attempts of one job
Scripts == [AttemptRange -> ScanResponses]

\* a main that passes the URLs on as read (C1 depends on the deduplication)
NoDedupe(seq) == seq

\* main.py lines 146-152: deduplicate while preserving order
RECURSIVE Dedupe(_)
Dedupe(seq) ==
    IF seq = <<>> THEN <<>>
    ELSE LET n == Len(seq)
             full_urls == Dedupe(SubSeq(seq, 1, n - 1))
         IN IF seq[n] \in Range(full_urls) THEN full_urls
            ELSE Append(full_urls, seq[n])

\* lines 675-679: [(url, strategy) for url in urls for strategy in STRATEGIES]
Jobs(us) ==
    [j \in 1..(Len(us) * Len(STRATEGIES)) |->
        [url |-> us[((j - 1) \div Len(STRATEGIES)) + 1],
         strategy |-> STRATEGIES[((j - 1) % Len(STRATEGIES)) + 1]]]

\* line 737 and 741: url_order.get(url, len(urls)); a later index of a URL
\* overwrites an earlier one in the dict
UrlOrder(us, url) ==
    IF \E i \in DOMAIN us : us[i] = url
    THEN (CHOOSE i \in DOMAIN us :
              us[i] = url /\ \A k \in DOMAIN us : us[k] = url => k <= i) - 1
    ELSE Len(us)

\* line 738 and 742: strategy_order.get(strategy, len(STRATEGIES))
StrategyOrder(strategy) ==
    IF \E i \in DOMAIN STRATEGIES : STRATEGIES[i] = strategy
    THEN (CHOOSE i \in DOMAIN STRATEGIES : STRATEGIES[i] = strategy) - 1
    ELSE Len(STRATEGIES)

\* a sort key without the strategy (C21 depends on the strategy order)
SortKeyUrlOnly(us, r) == <<UrlOrder(us, r.url), 0>>

\* lines 740-743: the sort key of a record
SortKey(us, r) == <<UrlOrder(us, r.url), StrategyOrder(r.strategy)>>

\* tuple comparison k1 <= k2
KeyLeq(k1, k2) == k1[1] < k2[1] \/ (k1[1] = k2[1] /\ k1[2] <= k2[2])

\* a scan that returns the records as collected (C2 depends on the sort)
NoSort(rs, us) == rs

\* lines 739-744: results.sort(key=...), which is stable
RECURSIVE SortResults(_, _)
SortResults(rs, us) ==
    IF rs = <<>> THEN <<>>
    ELSE LET n == Len(rs)
             sorted == SortResults(SubSeq(rs, 1, n - 1), us)
             r == rs[n]
             before == {i \in DOMAIN sorted :
                           KeyLeq(SortKey(us, sorted[i]), SortKey(us, r))}
             k == Cardinality(before)
         IN SubSeq(sorted, 1, k) \o <<r>> \o SubSeq(sorted, k + 1, n - 1)

RunningJobs == {j \in DOMAIN jobs : futState[j] = "running"}

\* line 694: the threads of ThreadPoolExecutor(max_workers=max_workers)
PoolThreads == 1..max_workers

\* the pool threads that are not inside a job
IdleWorkers == PoolThreads \ {worker[j] : j \in RunningJobs}

\* a pool thread that takes a work item while it is inside another job (C29
\* depends on a thread running one job at a time)
StartJobAnyThread(j) ==
    /\ phase = "pool"
    /\ futState[j] = "queued"
    /\ \A i \in DOMAIN jobs : i < j => futState[i] # "queued"
    /\ \E w \in PoolThreads : worker' = [worker EXCEPT ![j] = w]
    /\ futState' = [futState EXCEPT ![j] = "running"]
    /\ UNCHANGED results_lock
    /\ UNCHANGED <<limiterVars, callerVars, fetchVars, validateVars>>
    /\ UNCHANGED <<csv_full_urls, urls, max_workers, jobs, fetched, future,
                   order, results, phase>>

\* lines 694-700: a pool thread that is not inside a job takes the next work
\* item of the executor's queue
StartJob(j) ==
    /\ phase = "pool"
    /\ futState[j] = "queued"
    /\ \A i \in DOMAIN jobs : i < j => futState[i] # "queued"
    /\ \E w \in IdleWorkers : worker' = [worker EXCEPT ![j] = w]
    /\ futState' = [futState EXCEPT ![j] = "running"]
    /\ UNCHANGED results_lock
    /\ UNCHANGED <<limiterVars, callerVars, fetchVars, validateVars>>
    /\ UNCHANGED <<csv_full_urls, urls, max_workers, jobs, fetched, future,
                   order, results, phase>>

\* what _fetch_pagespeed can return, over all the transport's scripts
FetchOutcomes == {FetchPagespeed(script) : script \in Scripts}

\* lines 592-622: _scan_single runs to its end; data is what its call of
\* _fetch_pagespeed returned.  The pool thread leaves the job.
FinishJob(j, data) ==
    /\ phase = "pool"
    /\ futState[j] = "running"
    /\ fetched' = [fetched EXCEPT ![j] = data]
    /\ future' = [future EXCEPT ![j] =
                     ScanSingle(jobs[j].url, jobs[j].strategy, data)]
    /\ futState' = [futState EXCEPT ![j] = "finished"]
    /\ worker' = [worker EXCEPT ![j] = 0]
    /\ UNCHANGED results_lock
    /\ UNCHANGED <<limiterVars, callerVars, fetchVars, validateVars>>
    /\ UNCHANGED <<csv_full_urls, urls, max_workers, jobs, order, results, phase>>

\* a handler that builds the null record from the first job's pair (C13
\* depends on the pair being the collected future's own)
StaleCollectedRecord(j) ==
    IF future[j] = Raised THEN NullRecord(jobs[1].url, jobs[1].strategy)
    ELSE future[j].value

\* lines 703-722: url, strategy = future_to_job[future]; the future's result,
\* or the null record of that pair in place of its exception
CollectedRecord(j) ==
    IF future[j] = Raised THEN NullRecord(jobs[j].url, jobs[j].strategy)
    ELSE future[j].value

\* a collection loop that appends the record of a yielded future twice (C30
\* depends on one append for each future)
CollectAppendsTwice(j) ==
    /\ phase = "pool"
    /\ futState[j] = "finished"
    /\ results' = Append(Append(results, CollectedRecord(j)), CollectedRecord(j))
    /\ order' = Append(order, j)
    /\ futState' = [futState EXCEPT ![j] = "collected"]
    /\ UNCHANGED <<results_lock, worker>>
    /\ UNCHANGED <<limiterVars, callerVars, fetchVars, validateVars>>
    /\ UNCHANGED <<csv_full_urls, urls, max_workers, jobs, fetched, future, phase>>

\* lines 702-725: as_completed yields a finished future; its result, or the
\* null record in place of its exception, is appended
Collect(j) ==
    /\ phase = "pool"
    /\ futState[j] = "finished"
    /\ results' = Append(results, CollectedRecord(j))
    /\ order' = Append(order, j)
    /\ futState' = [futState EXCEPT ![j] = "collected"]
    /\ UNCHANGED <<results_lock, worker>>
    /\ UNCHANGED <<limiterVars, callerVars, fetchVars, validateVars>>
    /\ UNCHANGED <<csv_full_urls, urls, max_workers, jobs, fetched, future, phase>>

\* lines 747-749: sum(1 for r in results if r["performance"] is not None),
\* the count of the completion summary
SuccessCount(rs) == Cardinality({i \in DOMAIN rs : rs[i]["performance"] # Null})

\* lines 736-756: every future was yielded; sort and return
SortAndReturn ==
    /\ phase = "pool"
    /\ \A j \in DOMAIN jobs : futState[j] = "collected"
    /\ results' = SortResults(results, urls)
    /\ phase' = "returned"
    /\ UNCHANGED <<results_lock, worker>>
    /\ UNCHANGED <<limiterVars, callerVars, fetchVars, validateVars>>
    /\ UNCHANGED <<csv_full_urls, urls, max_workers, jobs, futState, fetched,
                   future, order>>

\* no limiter call is followed
NoCallers ==
    /\ rate = 1
    /\ tokens = Capacity(1)
    /\ last_refill = 0
    /\ lock = NoThread
    /\ clock = 0
    /\ pc = [t \in Threads |-> "idle"]
    /\ wake = [t \in Threads |-> 0]
    /\ calls = [t \in Threads |-> 0]
    /\ debitLog = <<>>
    /\ reqLog = <<>>
    /\ debits = [t \in Threads |-> 0]

\* main.py lines 133-163 and scanner.py lines 656-700: the URLs are read and
\* deduplicated, scan_urls builds the jobs and submits them all
ScanInit ==
    /\ csv_full_urls \in UNION {[1..n -> UrlNames] : n \in 0..MaxUrls}
    /\ urls = Dedupe(csv_full_urls)
    /\ max_workers \in 1..MaxWorkers
    /\ jobs = Jobs(urls)
    /\ futState = [j \in DOMAIN jobs |-> "queued"]
    /\ fetched = [j \in DOMAIN jobs |-> Running]
    /\ future = [j \in DOMAIN jobs |-> Running]
    /\ order = <<>>
    /\ results = <<>>
    /\ phase = "pool"
    /\ results_lock = NoThread
    /\ worker = [j \in DOMAIN jobs |-> 0]
    /\ NoCallers
    /\ NoFetch
    /\ NoValidate

ScanNext ==
    \/ \E j \in DOMAIN jobs : StartJob(j)
    \/ \E j \in DOMAIN jobs : \E data \in FetchOutcomes : FinishJob(j, data)
    \/ \E j \in DOMAIN jobs : Collect(j)
    \/ SortAndReturn

SpecScan == ScanInit /\ [][ScanNext]_vars

\* ------------------------------------------------------------------------
\* A scan of three URLs against a scripted transport
\* ------------------------------------------------------------------------
ScenarioUrls == <<"https://a.example/", "https://b.example/", "https://c.example/">>

\* answers after which an attempt is retried, and answers that end the job
TransientResponses == {Http(429, ErrorBody), ConnectionError, Timeout}
FatalResponses == {Http(404, ErrorBody), Http(504, ErrorBody), RequestException}

\* the transport's answers to the attempts of a job of url: the first URL
\* fails transiently twice and then succeeds, the second always fails with
\* an error that is not retried, the third succeeds at once
ScenarioScripts(url) ==
    CASE url = ScenarioUrls[1] ->
            {<<t1, t2, Http(200, SampleBody)>> :
                t1 \in TransientResponses, t2 \in TransientResponses}
      [] url = ScenarioUrls[2] -> [AttemptRange -> FatalResponses]
      [] OTHER -> [AttemptRange -> {Http(200, SampleBody)}]

\* main.py lines 133-163 and scanner.py lines 656-700 for the three URLs
ScenarioInit ==
    /\ csv_full_urls = ScenarioUrls
    /\ urls = Dedupe(csv_full_urls)
    /\ max_workers \in 1..MaxWorkers
    /\ jobs = Jobs(urls)
    /\ futState = [j \in DOMAIN jobs |-> "queued"]
    /\ fetched = [j \in DOMAIN jobs |-> Running]
    /\ future = [j \in DOMAIN jobs |-> Running]
    /\ order = <<>>
    /\ results = <<>>
    /\ phase = "pool"
    /\ results_lock = NoThread
    /\ worker = [j \in DOMAIN jobs |-> 0]
    /\ NoCallers
    /\ NoFetch
    /\ NoValidate

ScenarioNext ==
    \/ \E j \in DOMAIN jobs : StartJob(j)
    \/ \E j \in DOMAIN jobs : \E script \in ScenarioScripts(jobs[j].url) :
           FinishJob(j, FetchPagespeed(script))
    \/ \E j \in DOMAIN jobs : Collect(j)
    \/ SortAndReturn

SpecScenario == ScenarioInit /\ [][ScenarioNext]_vars

\* ------------------------------------------------------------------------
\* URLs.  A string that is read as a URL is kept by its parts: the text is
\* scheme "://" netloc path "?" query "#" fragment (netloc path "?" query "#"
\* fragment when there is no scheme), with white space around it when pad is
\* TRUE.  A path is the sequence of its characters.
\* ------------------------------------------------------------------------
UrlText(pad, scheme, netloc, path, query, fragment) ==
    [pad |-> pad, scheme |-> scheme, netloc |-> netloc, path |-> path,
     query |-> query, fragment |-> fragment]

Schemes == {"", "http", "https", "HTTP", "ftp"}
Netlocs == {"", "example.com", "bit.ly", "go.bit.ly", ":80", "[::1"}
PathChars == {"a", " ", "%"}

\* the paths of up to MaxPathLen characters: empty, or "/" and more
Paths ==
    {<<>>} \cup
    UNION {{<<"/">> \o p : p \in [1..n -> PathChars]} : n \in 0..(MaxPathLen - 1)}

\* the strings given to the validation
RawUrls ==
    {UrlText(pad, scheme, netloc, path, query, fragment) :
        pad \in BOOLEAN, scheme \in Schemes, netloc \in Netlocs,
        path \in Paths, query \in {"", "q=1"}, fragment \in {"", "top"}}

\* line 173: url.strip()
Strip(u) == [u EXCEPT !.pad = FALSE]

\* line 174: not url
IsEmptyText(u) ==
    /\ ~u.pad
    /\ u.scheme = "" /\ u.netloc = "" /\ u.path = <<>>
    /\ u.query = "" /\ u.fragment = ""

\* line 178: urlparse raises ValueError("Invalid IPv6 URL") for a netloc with a
\* bracket that is not closed
UrlparseRaises(u) == u.scheme # "" /\ u.netloc = "[::1"

\* line 179: parsed.scheme, in lower case
ParsedScheme(u) == IF u.scheme = "HTTP" THEN "http" ELSE u.scheme

\* line 182: parsed.hostname, None when the netloc holds no host
ParsedHostname(u) ==
    IF u.scheme = "" \/ u.netloc \in {"", ":80"} THEN Null ELSE Some(u.netloc)

\* quote(c, safe="/:@!$&'()*+,;=-._~") of one character
QuoteChar(c) ==
    CASE c = " " -> <<"%", "2", "0">>
      [] c = "%" -> <<"%", "2", "5">>
      [] OTHER -> <<c>>

\* line 186: quote(parsed.path, safe=...)
RECURSIVE Quote(_)
Quote(path) ==
    IF path = <<>> THEN <<>> ELSE QuoteChar(Head(path)) \o Quote(Tail(path))

\* lines 167-198: the cleaned URL, None, or the ValueError of urlparse
SanitiseUrl(raw) ==
    LET url == Strip(raw)
    IN IF IsEmptyText(url) THEN None
       ELSE IF UrlparseRaises(url) THEN Raised
       ELSE IF ParsedScheme(url) \notin {"http", "https"} THEN None
       ELSE IF ParsedHostname(url) = Null THEN None
       ELSE Value(UrlText(FALSE, ParsedScheme(url), url.netloc,
                          Quote(url.path), url.query, ""))

\* lines 126-130
SHORTLINK_DOMAINS ==
    {"bit.ly", "goo.gl", "t.co", "tinyurl.com", "ow.ly", "buff.ly", "is.gd",
     "v.gd", "rebrand.ly", "cutt.ly", "shorturl.at", "tiny.cc", "lnkd.in"}

\* the domains d for which host.endswith("." + d)
ParentDomains(host) ==
    CASE host = "go.bit.ly" -> {"bit.ly", "ly"}
      [] host = "bit.ly" -> {"ly"}
      [] host = "example.com" -> {"com"}
      [] OTHER -> {}

\* lines 133-143
IsShortlink(u) ==
    IF UrlparseRaises(u) THEN FALSE
    ELSE LET host == IF ParsedHostname(u) = Null THEN ""
                     ELSE ParsedHostname(u)[1]
         IN host \in SHORTLINK_DOMAINS
            \/ ParentDomains(host) \cap SHORTLINK_DOMAINS # {}

\* what requests.head does: it raises, or it answers with the final URL
HeadError == [kind |-> "error", url |-> UrlText(FALSE, "", "", <<>>, "", "")]
HeadFinal(u) == [kind |-> "final", url |-> u]

\* the final URLs of a HEAD request for url: the URL itself, a landing page,
\* a landing page whose path has a space, and the empty string
HeadResults(url) ==
    {HeadError} \cup
    {HeadFinal(f) :
        f \in {url,
               UrlText(FALSE, "https", "example.com", <<"/", "a">>, "", ""),
               UrlText(FALSE, "https", "example.com", <<"/", " ">>, "", ""),
               UrlText(FALSE, "", "", <<>>, "", "")}}

\* lines 146-164
ResolveRedirect(url, head) ==
    IF head.kind = "error" THEN url ELSE head.url

\* ------------------------------------------------------------------------
\* validate_urls (scanner.py lines 201-264), with resolve_redirects at its
\* default True.  The loop body is followed step by step: the HEAD request
\* of _resolve_redirect is a step of its own.
\* ------------------------------------------------------------------------
\* the URLs the longer argument lists are made of
ValidateSamples ==
    {UrlText(FALSE, scheme, netloc, path, "", "") :
        scheme \in {"https", "ftp"},
        netloc \in {"example.com", "bit.ly", "[::1"},
        path \in {<<"/", "a">>, <<"/", " ">>}}
    \cup {UrlText(FALSE, "https", "example.com", <<"/", "a">>, "", "top")}

\* every list of one string, and the lists of up to MaxRawUrls samples
ValidateInputs ==
    {<<u>> : u \in RawUrls} \cup
    UNION {[1..n -> ValidateSamples] : n \in 0..MaxRawUrls}

\* line 226: the for loop goes to the next URL, or line 264 returns
NextUrl ==
    IF vpos < Len(raw_urls)
    THEN vpos' = vpos + 1 /\ vstep' = "sanitise"
    ELSE vpos' = vpos /\ vstep' = "returned"

\* lines 228-252: sanitise the URL, skip it, keep it or go to the resolution
ValidateSanitise ==
    /\ vstep = "sanitise"
    /\ LET url == raw_urls[vpos]
           r == SanitiseUrl(url)
       IN IF r = Raised
          THEN /\ vstep' = "raised"
               /\ UNCHANGED <<vpos, clean, resolved, valid, skipped>>
          ELSE IF r = None
          THEN /\ skipped' = Append(skipped,
                       [url |-> url, reason |-> <<"Invalid URL format">>])
               /\ NextUrl
               /\ UNCHANGED <<clean, resolved, valid>>
          ELSE /\ clean' = Some(r.value)
               /\ IF IsShortlink(r.value)
                  THEN /\ vstep' = "resolve"
                       /\ UNCHANGED <<vpos, valid>>
                  ELSE /\ valid' = Append(valid, r.value)
                       /\ NextUrl
               /\ UNCHANGED <<resolved, skipped>>
    /\ UNCHANGED <<raw_urls, limiterVars, callerVars, fetchVars, scanVars>>

\* line 238: resolved = _resolve_redirect(clean)
ValidateResolve(head) ==
    /\ vstep = "resolve"
    /\ resolved' = Some(ResolveRedirect(clean[1], head))
    /\ vstep' = "resanitise"
    /\ UNCHANGED <<raw_urls, vpos, clean, valid, skipped>>
    /\ UNCHANGED <<limiterVars, callerVars, fetchVars, scanVars>>

\* lines 239-252: sanitise the resolved URL, skip the entry or keep it
ValidateResanitise ==
    /\ vstep = "resanitise"
    /\ LET r == SanitiseUrl(resolved[1])
       IN IF r = Raised
          THEN /\ vstep' = "raised"
               /\ UNCHANGED <<vpos, clean, valid, skipped>>
          ELSE IF r = None
          THEN /\ skipped' = Append(skipped,
                       [url |-> raw_urls[vpos],
                        reason |-> <<"Redirect resolved to invalid URL: ",
                                     resolved[1]>>])
               /\ NextUrl
               /\ UNCHANGED <<clean, valid>>
          ELSE /\ clean' = Some(r.value)
               /\ valid' = Append(valid, r.value)
               /\ NextUrl
               /\ UNCHANGED skipped
    /\ UNCHANGED <<raw_urls, resolved>>
    /\ UNCHANGED <<limiterVars, callerVars, fetchVars, scanVars>>

ValidateInit ==
    /\ raw_urls \in ValidateInputs
    /\ vpos = IF raw_urls = <<>> THEN 0 ELSE 1
    /\ vstep = IF raw_urls = <<>> THEN "returned" ELSE "sanitise"
    /\ clean = Null
    /\ resolved = Null
    /\ valid = <<>>
    /\ skipped = <<>>
    /\ NoCallers
    /\ NoFetch
    /\ NoScan

\* what the HEAD request of line 153 can do when the loop is at line 238
PendingHeadResults ==
    IF vstep = "resolve" THEN HeadResults(clean[1]) ELSE {}

ValidateNext ==
    \/ ValidateSanitise
    \/ \E head \in PendingHeadResults : ValidateResolve(head)
    \/ ValidateResanitise

SpecValidate == ValidateInit /\ [][ValidateNext]_vars

\* ------------------------------------------------------------------------
\* main (main.py lines 120-163) with read_urls and build_full_urls
\* (reader.py): from the rows of the CSV file to the call of scan_urls.
\* ------------------------------------------------------------------------
Exit == [ret |-> "exit"]

\* the rows of the CSV files: a URL, a URL without a host, a blank row,
\* a route, and a URL whose bracket is not closed
MainRows ==
    {UrlText(FALSE, "https", "example.com", <<"/", "a">>, "", ""),
     UrlText(FALSE, "https", ":80", <<"/", "a">>, "", ""),
     UrlText(TRUE, "", "", <<>>, "", ""),
     UrlText(FALSE, "", "", <<"/", "a">>, "", ""),
     UrlText(FALSE, "http", "[::1", <<>>, "", "")}

\* main.py line 121: no base URL, the placeholder, or a site
Placeholder == UrlText(FALSE, "https", "example.com", <<>>, "", "")
BaseUrls ==
    {Null, Some(Placeholder),
     Some(UrlText(FALSE, "https", "site.example", <<"/">>, "", ""))}

\* reader.py lines 21-24
IsFullUrl(entry) == ParsedScheme(entry) \in {"http", "https"}

\* reader.py lines 80-86: a route starts with "/"
Route(entry) ==
    IF entry.path # <<>> /\ Head(entry.path) = "/" THEN entry
    ELSE [entry EXCEPT !.path = <<"/">> \o entry.path]

\* reader.py lines 27-119: the full URLs and the routes, the exit of line
\* 105, or the ValueError of urlparse
ReadUrls(rows) ==
    LET IsEntry(row) == ~IsEmptyText(Strip(row))
        kept == SelectSeq(rows, IsEntry)
        entries == [k \in DOMAIN kept |-> Strip(kept[k])]
        IsRoute(entry) == ~IsFullUrl(entry)
        routes == SelectSeq(entries, IsRoute)
    IN IF \E k \in DOMAIN entries : UrlparseRaises(entries[k]) THEN Raised
       ELSE IF entries = <<>> THEN Exit
       ELSE [ret |-> "value",
             full_urls |-> SelectSeq(entries, IsFullUrl),
             routes |-> [k \in DOMAIN routes |-> Route(routes[k])]]

\* reader.py line 134: base_url.rstrip("/")
RECURSIVE RStripSlash(_)
RStripSlash(path) ==
    IF path # <<>> /\ path[Len(path)] = "/"
    THEN RStripSlash(SubSeq(path, 1, Len(path) - 1))
    ELSE path

\* reader.py lines 122-136, for a base URL without query and fragment
BuildFullUrls(base_url, routes) ==
    [k \in DOMAIN routes |->
        UrlText(FALSE, base_url.scheme, base_url.netloc,
                RStripSlash(base_url.path) \o routes[k].path,
                routes[k].query, routes[k].fragment)]

\* main.py lines 133-144: csv_full_urls, or the end of the program
MainUrls(rows, base_url) ==
    LET r == ReadUrls(rows)
    IN IF r.ret # "value" THEN r
       ELSE IF r.routes = <<>> THEN Value(r.full_urls)
       ELSE IF base_url = Null \/ base_url = Some(Placeholder) THEN Exit
       ELSE Value(r.full_urls \o BuildFullUrls(base_url[1], r.routes))

\* the lists of rows below the header
MainInputs == UNION {[1..n -> MainRows] : n \in 0..MaxRows}

\* main.py lines 133-163 and scanner.py lines 656-700: the program has
\* read the CSV file and scan_urls has submitted its jobs, or it has ended
MainInit ==
    /\ \E rows \in MainInputs, base_url \in BaseUrls :
          LET m == MainUrls(rows, base_url)
          IN IF m.ret = "value"
             THEN csv_full_urls = m.value /\ phase = "pool"
             ELSE csv_full_urls = <<>> /\ phase = m.ret
    /\ urls = Dedupe(csv_full_urls)
    /\ max_workers \in 1..MaxWorkers
    /\ jobs = Jobs(urls)
    /\ futState = [j \in DOMAIN jobs |-> "queued"]
    /\ fetched = [j \in DOMAIN jobs |-> Running]
    /\ future = [j \in DOMAIN jobs |-> Running]
    /\ order = <<>>
    /\ results = <<>>
    /\ results_lock = NoThread
    /\ worker = [j \in DOMAIN jobs |-> 0]
    /\ NoCallers
    /\ NoFetch
    /\ NoValidate

SpecMain == MainInit /\ [][ScanNext]_vars

\* ------------------------------------------------------------------------
\* The extraction of one job.  The first job of a scan of one URL is
\* followed from the moment its fetch returns: _scan_single (lines 608-622)
\* applies the extractors to the payload.
\* ------------------------------------------------------------------------
\* scores of the payloads, in thousandths: 0.0, 0.29, 0.873 and 1.0
ScoreSamples == {0, 290, 873, 1000}

\* what the payload can hold for one category: an empty object, an object
\* without a score (.get("score") is None for a key that is missing and for
\* a key that is null), or an object with a score
CategoryValues ==
    {EmptyDict, [title |-> "Category"]} \cup
    {[score |-> score] : score \in ScoreSamples}

\* the payloads with any subset of the four categories
CategoryPayloads ==
    {[lighthouseResult |-> [categories |-> categories, audits |-> EmptyDict]] :
        categories \in UNION {[present -> CategoryValues] :
                                 present \in SUBSET Range(CATEGORIES)}}

\* the ids of the audits of a payload, by position among the auditRefs
AuditIds ==
    <<"audit-01", "audit-02", "audit-03", "audit-04", "audit-05", "audit-06",
      "audit-07", "audit-08", "audit-09", "audit-10", "audit-11", "audit-12",
      "audit-13", "audit-14", "audit-15", "audit-16">>

\* the audits that fill the long lists, and the other audits
SavingKinds == {"saves100", "saves300"}
OtherKinds ==
    {"numeric200", "no_savings", "passing", "diagnostic", "unscored",
     "no_audit"}

\* the group of the auditRef of each kind
GroupOf(kind) == IF kind = "diagnostic" THEN "diagnostics" ELSE "opportunity"

\* the audit of each kind
AuditOf(kind) ==
    CASE kind = "saves100" ->
            [score |-> 500, details |-> [overallSavingsMs |-> 100],
             title |-> "Title", displayValue |-> "0.1 s"]
      [] kind = "saves300" ->
            [score |-> 0, details |-> [overallSavingsMs |-> 300]]
      [] kind = "numeric200" ->
            [score |-> 500, details |-> [overallSavingsMs |-> 0],
             numericValue |-> 200]
      [] kind = "no_savings" -> [score |-> 500]
      [] kind = "passing" ->
            [score |-> 1000, details |-> [overallSavingsMs |-> 900]]
      [] kind = "diagnostic" ->
            [score |-> 500, details |-> [overallSavingsMs |-> 900]]
      [] OTHER -> [details |-> [overallSavingsMs |-> 50]]

\* n audits of one kind
Repeat(kind, n) == [i \in 1..n |-> kind]

\* up to MaxRefs audits with savings, in three runs of equal savings
SavingLists ==
    {Repeat(first, a) \o Repeat(second, b) \o Repeat(first, c) :
        <<first, second, a, b, c>> \in
            {t \in SavingKinds \X SavingKinds \X (0..MaxRefs) \X (0..MaxRefs)
                       \X (0..MaxRefs) :
                t[1] # t[2] /\ t[3] + t[4] + t[5] <= MaxRefs}}

\* the lists of kinds: every list of up to MaxMixedRefs audits, and the
\* lists of audits with savings alone or with one other audit before or
\* after them
KindLists ==
    UNION {[1..n -> SavingKinds \cup OtherKinds] : n \in 0..MaxMixedRefs}
    \cup SavingLists
    \cup {<<other>> \o ks : other \in OtherKinds, ks \in SavingLists}
    \cup {ks \o <<other>> : other \in OtherKinds, ks \in SavingLists}

\* the payload whose performance category refers to audits of these kinds
AuditPayload(kinds) ==
    [lighthouseResult |->
        [categories |->
            [performance |->
                [score |-> 873,
                 auditRefs |-> [i \in DOMAIN kinds |->
                                   [id |-> AuditIds[i],
                                    group |-> GroupOf(kinds[i])]]]],
         audits |->
            [id \in {AuditIds[i] : i \in {k \in DOMAIN kinds :
                                             kinds[k] # "no_audit"}} |->
                AuditOf(kinds[CHOOSE i \in DOMAIN kinds : AuditIds[i] = id])]]]

AuditPayloads == {AuditPayload(kinds) : kinds \in KindLists}

\* a payload with every section: four categories, the performance
\* category's auditRefs, the audits they refer to, a lab metric, and the
\* field data of one metric
FullPayload ==
    [lighthouseResult |->
        [categories |->
            [c \in Range(CATEGORIES) |->
                IF c = "performance"
                THEN [score |-> 873,
                      auditRefs |->
                          <<[id |-> "audit-01", group |-> "opportunity"],
                            [id |-> "audit-02", group |-> "opportunity"],
                            [id |-> "audit-03", group |-> "diagnostics"]>>]
                ELSE [score |-> 1000]],
         audits |->
            [id \in {"audit-01", "audit-02", "audit-03",
                     "first-contentful-paint"} |->
                CASE id = "audit-01" -> AuditOf("saves300")
                  [] id = "audit-02" -> AuditOf("passing")
                  [] id = "audit-03" -> AuditOf("diagnostic")
                  [] OTHER -> [displayValue |-> "1.8 s", numericValue |-> 1800,
                               score |-> 900]]],
     loadingExperience |->
        [overall_category |-> "SLOW",
         metrics |->
            [k \in {"FIRST_CONTENTFUL_PAINT_MS"} |->
                [category |-> "FAST", percentile |-> 1200,
                 distributions |-> <<[proportion |-> 800], [proportion |-> 150],
                                     [proportion |-> 50]>>]]]]

\* the sections a payload can lack
Sections == {"categories", "audits", "loadingExperience", "auditRefs"}

\* the dict d without the key k
Without(d, k) == [x \in DOMAIN d \ {k} |-> d[x]]

\* the full payload without the sections of `missing`
Lacking(missing) ==
    LET lr0 == FullPayload["lighthouseResult"]
        perf0 == lr0["categories"]["performance"]
        perf == IF "auditRefs" \in missing THEN Without(perf0, "auditRefs")
                ELSE perf0
        cats == [lr0["categories"] EXCEPT !["performance"] = perf]
        lr1 == IF "categories" \in missing THEN Without(lr0, "categories")
               ELSE [lr0 EXCEPT !["categories"] = cats]
        lr == IF "audits" \in missing THEN Without(lr1, "audits") ELSE lr1
        top == [FullPayload EXCEPT !["lighthouseResult"] = lr]
    IN IF "loadingExperience" \in missing
       THEN Without(top, "loadingExperience") ELSE top

SectionPayloads == {Lacking(missing) : missing \in SUBSET Sections}

ExtractPayloads == CategoryPayloads \cup AuditPayloads \cup SectionPayloads

\* the workers have taken up the two jobs of one URL
ExtractInit ==
    /\ csv_full_urls = <<ScenarioUrls[1]>>
    /\ urls = Dedupe(csv_full_urls)
    /\ max_workers = Len(STRATEGIES)
    /\ jobs = Jobs(urls)
    /\ futState = [j \in DOMAIN jobs |-> "running"]
    /\ fetched = [j \in DOMAIN jobs |-> Running]
    /\ future = [j \in DOMAIN jobs |-> Running]
    /\ order = <<>>
    /\ results = <<>>
    /\ phase = "pool"
    /\ results_lock = NoThread
    /\ worker = [j \in DOMAIN jobs |-> j]
    /\ NoCallers
    /\ NoFetch
    /\ NoValidate

\* the payloads the fetch of the first job can still return
PendingPayloads ==
    IF futState[1] = "running" THEN ExtractPayloads ELSE {}

\* the fetch of the first job returns a payload and the job extracts it
ExtractNext ==
    \E data \in PendingPayloads : FinishJob(1, Json(data))

SpecExtract == ExtractInit /\ [][ExtractNext]_vars

\* ------------------------------------------------------------------------
\* The workers of a scan next to the main thread.  The workers are followed
\* as in SpecFetch; of the main thread's collection loop (lines 702-734) the
\* steps at _results_lock are followed, the list itself is not.
\* ------------------------------------------------------------------------
MainThread == "main"

\* line 724: the main thread enters `with _results_lock:`
ResultsLockAcquire ==
    /\ results_lock = NoThread
    /\ results_lock' = MainThread
    /\ UNCHANGED <<limiterVars, callerVars, fetchVars, validateVars>>
    /\ UNCHANGED <<csv_full_urls, urls, max_workers, jobs, futState, fetched,
                   future, order, results, phase, worker>>

\* line 725: the record is appended and the `with` block is left
ResultsLockRelease ==
    /\ results_lock = MainThread
    /\ results_lock' = NoThread
    /\ UNCHANGED <<limiterVars, callerVars, fetchVars, validateVars>>
    /\ UNCHANGED <<csv_full_urls, urls, max_workers, jobs, futState, fetched,
                   future, order, results, phase, worker>>

\* what the transport answers to the job that is followed
WorkerResponses == {Http(200, SampleBody), Http(429, ErrorBody), Timeout}

\* a scan's limiter of one request per second
WorkersInit == FetchInit /\ rate = RateDen

WorkersNext ==
    \/ \E t \in Threads : LockAcquire(t)
    \/ \E t \in Threads : AcquireDebitRel(t)
    \/ \E t \in Threads : AcquireNap(t)
    \/ \E t \in Threads : NapOver(t)
    \/ JobSend(Job)
    \/ \E r \in WorkerResponses : Respond(Job, r)
    \/ BackoffOver(Job)
    \/ \E t \in Peers : Call(t)
    \/ \E t \in Peers : SendRel(t)
    \/ \E t \in Peers : Answered(t)
    \/ TickRel
    \/ ResultsLockAcquire
    \/ ResultsLockRelease

SpecWorkers == WorkersInit /\ [][WorkersNext]_vars

\* ------------------------------------------------------------------------
\* A whole scan, thread by thread: the pool threads run their jobs through
\* the limiter, the request, the back-off and the extraction, and the main
\* thread collects the futures under _results_lock.
\* ------------------------------------------------------------------------
\* the pool thread with number w
ThreadOf(w) == IF w = 1 THEN "w1" ELSE "w2"

\* what the transport answers to a request of the scan
RunResponses == {Http(200, SampleBody), Http(200, BrokenBody), Http(429, ErrorBody)}

\* lines 694-700 and 592: an idle pool thread takes the next work item and
\* enters _fetch_pagespeed, at attempt 1 of the loop of line 296
RunStart(j) ==
    /\ phase = "pool"
    /\ futState[j] = "queued"
    /\ \A i \in DOMAIN jobs : i < j => futState[i] # "queued"
    /\ \E w \in IdleWorkers :
          /\ worker' = [worker EXCEPT ![j] = w]
          /\ pc' = [pc EXCEPT ![ThreadOf(w)] = AttemptStart]
          /\ attempt' = [attempt EXCEPT ![ThreadOf(w)] = 1]
          /\ requests' = [requests EXCEPT ![ThreadOf(w)] = 0]
          /\ resps' = [resps EXCEPT ![ThreadOf(w)] = <<>>]
          /\ outcome' = [outcome EXCEPT ![ThreadOf(w)] = Running]
    /\ futState' = [futState EXCEPT ![j] = "running"]
    /\ UNCHANGED <<limiterVars, wake, calls, debitLog, reqLog, debits, lastReq>>
    /\ UNCHANGED <<csv_full_urls, urls, max_workers, jobs, fetched, future,
                   order, results, phase, results_lock>>
    /\ UNCHANGED validateVars

\* a _scan_single that builds its record from what the first pool thread
\* fetched last (C32 depends on the job using its own fetch)
RunEndShared(j) ==
    /\ phase = "pool"
    /\ futState[j] = "running"
    /\ pc[ThreadOf(worker[j])] = "done"
    /\ LET data == IF outcome[ThreadOf(1)] = Running
                   THEN outcome[ThreadOf(worker[j])]
                   ELSE outcome[ThreadOf(1)]
       IN /\ fetched' = [fetched EXCEPT ![j] = data]
          /\ future' = [future EXCEPT ![j] =
                           ScanSingle(jobs[j].url, jobs[j].strategy, data)]
    /\ futState' = [futState EXCEPT ![j] = "finished"]
    /\ pc' = [pc EXCEPT ![ThreadOf(worker[j])] = "idle"]
    /\ worker' = [worker EXCEPT ![j] = 0]
    /\ UNCHANGED <<limiterVars, wake, calls, debitLog, reqLog, debits, fetchVars>>
    /\ UNCHANGED <<csv_full_urls, urls, max_workers, jobs, order, results, phase,
                   results_lock>>
    /\ UNCHANGED validateVars

\* lines 592-622: _fetch_pagespeed has returned to _scan_single, which
\* extracts and returns; the future is done and the thread is idle again
RunEnd(j) ==
    /\ phase = "pool"
    /\ futState[j] = "running"
    /\ pc[ThreadOf(worker[j])] = "done"
    /\ fetched' = [fetched EXCEPT ![j] = outcome[ThreadOf(worker[j])]]
    /\ future' = [future EXCEPT ![j] =
                     ScanSingle(jobs[j].url, jobs[j].strategy,
                                outcome[ThreadOf(worker[j])])]
    /\ futState' = [futState EXCEPT ![j] = "finished"]
    /\ pc' = [pc EXCEPT ![ThreadOf(worker[j])] = "idle"]
    /\ worker' = [worker EXCEPT ![j] = 0]
    /\ UNCHANGED <<limiterVars, wake, calls, debitLog, reqLog, debits, fetchVars>>
    /\ UNCHANGED <<csv_full_urls, urls, max_workers, jobs, order, results, phase,
                   results_lock>>
    /\ UNCHANGED validateVars

\* lines 702-724: as_completed yields a finished future, the main thread
\* takes its result or builds the null record, and enters `with _results_lock:`
RunYield(j) ==
    /\ phase = "pool"
    /\ futState[j] = "finished"
    /\ \A i \in DOMAIN jobs : futState[i] # "yielded"
    /\ results_lock = NoThread
    /\ results_lock' = MainThread
    /\ futState' = [futState EXCEPT ![j] = "yielded"]
    /\ UNCHANGED <<limiterVars, callerVars, fetchVars, validateVars>>
    /\ UNCHANGED <<csv_full_urls, urls, max_workers, jobs, fetched, future,
                   order, results, phase, worker>>

\* an append after which the main thread keeps _results_lock (C37 depends
\* on the `with` block releasing it)
RunAppendKeepsLock(j) ==
    /\ phase = "pool"
    /\ futState[j] = "yielded"
    /\ results_lock = MainThread
    /\ results' = Append(results, CollectedRecord(j))
    /\ order' = Append(order, j)
    /\ futState' = [futState EXCEPT ![j] = "collected"]
    /\ results_lock' = MainThread
    /\ UNCHANGED <<limiterVars, callerVars, fetchVars, validateVars>>
    /\ UNCHANGED <<csv_full_urls, urls, max_workers, jobs, fetched, future,
                   phase, worker>>

\* line 725: the record is appended and the `with` block is left
RunAppend(j) ==
    /\ phase = "pool"
    /\ futState[j] = "yielded"
    /\ results_lock = MainThread
    /\ results' = Append(results, CollectedRecord(j))
    /\ order' = Append(order, j)
    /\ futState' = [futState EXCEPT ![j] = "collected"]
    /\ results_lock' = NoThread
    /\ UNCHANGED <<limiterVars, callerVars, fetchVars, validateVars>>
    /\ UNCHANGED <<csv_full_urls, urls, max_workers, jobs, fetched, future,
                   phase, worker>>

\* scan_urls(urls, api_key, max_workers=..., rate_limit=...) for one URL:
\* the limiter of line 660, the jobs of lines 675-679, all submitted
RunInit ==
    /\ rate \in Rates
    /\ tokens = Capacity(rate)
    /\ last_refill = 0
    /\ lock = NoThread
    /\ clock = 0
    /\ pc = [t \in Threads |-> "idle"]
    /\ wake = [t \in Threads |-> 0]
    /\ calls = [t \in Threads |-> 0]
    /\ debitLog = <<>>
    /\ reqLog = <<>>
    /\ debits = [t \in Threads |-> 0]
    /\ NoFetch
    /\ csv_full_urls = <<ScenarioUrls[1]>>
    /\ urls = Dedupe(csv_full_urls)
    /\ max_workers \in 1..Cardinality(Threads)
    /\ jobs = Jobs(urls)
    /\ futState = [j \in DOMAIN jobs |-> "queued"]
    /\ fetched = [j \in DOMAIN jobs |-> Running]
    /\ future = [j \in DOMAIN jobs |-> Running]
    /\ order = <<>>
    /\ results = <<>>
    /\ phase = "pool"
    /\ results_lock = NoThread
    /\ worker = [j \in DOMAIN jobs |-> 0]
    /\ NoValidate

RunNext ==
    \/ \E j \in DOMAIN jobs : RunStart(j)
    \/ \E t \in Threads : LockAcquire(t)
    \/ \E t \in Threads : AcquireDebitRel(t)
    \/ \E t \in Threads : AcquireNap(t)
    \/ \E t \in Threads : NapOver(t)
    \/ \E t \in Threads : JobSend(t)
    \/ \E t \in Threads : \E r \in RunResponses : Respond(t, r)
    \/ \E t \in Threads : BackoffOver(t)
    \/ \E j \in DOMAIN jobs : RunEnd(j)
    \/ \E j \in DOMAIN jobs : RunYield(j)
    \/ \E j \in DOMAIN jobs : RunAppend(j)
    \/ SortAndReturn
    \/ TickRel

\* a step of a pool thread or of the main thread
RunStep ==
    \/ \E j \in DOMAIN jobs : RunStart(j)
    \/ \E t \in Threads : LockAcquire(t)
    \/ \E t \in Threads : AcquireDebitRel(t)
    \/ \E t \in Threads : AcquireNap(t)
    \/ \E t \in Threads : NapOver(t)
    \/ \E t \in Threads : JobSend(t)
    \/ \E t \in Threads : \E r \in RunResponses : Respond(t, r)
    \/ \E t \in Threads : BackoffOver(t)
    \/ \E j \in DOMAIN jobs : RunEnd(j)
    \/ \E j \in DOMAIN jobs : RunYield(j)
    \/ \E j \in DOMAIN jobs : RunAppend(j)
    \/ SortAndReturn

SpecRun == RunInit /\ [][RunNext]_vars

\* time advances, every runnable thread runs, the lock is granted fairly,
\* and every HTTP call returns a response or an error
RunFairness ==
    /\ WF_vars(TickRel)
    /\ WF_vars(SortAndReturn)
    /\ \A j \in 1..Len(STRATEGIES) :
        /\ WF_vars(RunStart(j))
        /\ WF_vars(RunEnd(j))
        /\ WF_vars(RunYield(j))
        /\ WF_vars(RunAppend(j))
    /\ \A t \in Threads :
        /\ SF_vars(LockAcquire(t))
        /\ WF_vars(AcquireDebitRel(t))
        /\ WF_vars(AcquireNap(t))
        /\ WF_vars(NapOver(t))
        /\ WF_vars(JobSend(t))
        /\ WF_vars(\E r \in RunResponses : Respond(t, r))
        /\ WF_vars(BackoffOver(t))

SpecRunLive == RunInit /\ [][RunNext]_vars /\ RunFairness

\* ------------------------------------------------------------------------
\* Properties of the limiter
\* ------------------------------------------------------------------------
\* number of debits whose clock reading lies in the window [s, e]
DebitsIn(s, e) ==
    Cardinality({i \in DOMAIN debitLog : s <= debitLog[i] /\ debitLog[i] <= e})

\* number of requests whose clock reading lies in the window [s, e]
RequestsIn(s, e) ==
    Cardinality({i \in DOMAIN reqLog : s <= reqLog[i] /\ reqLog[i] <= e})

\* ceil(R * T) for the window [s, e], T = (e - s) / TicksPerSecond seconds
CeilRateTimes(s, e) == CeilDiv(rate * (e - s), RateDen * TicksPerSecond)

\* C4: in every window of T >= 1 second the number of debits is at most
\* ceil(R * T) + capacity, capacity = R (both sides multiplied by RateDen).
C4_WindowBound ==
    \A s \in 0..clock : \A e \in s..clock :
        (e - s >= TicksPerSecond) =>
            DebitsIn(s, e) * RateDen <= CeilRateTimes(s, e) * RateDen + rate

\* C4 witness: a one-second window that holds exactly ceil(R * T) + capacity
\* debits: a burst of the full bucket, then the refill of that second.
C4_Witness ==
    \E s \in 0..clock :
        /\ s + TicksPerSecond <= clock
        /\ DebitsIn(s, s) * RateDen = rate
        /\ DebitsIn(s, s + TicksPerSecond) * RateDen =
               CeilRateTimes(s, s + TicksPerSecond) * RateDen + rate

\* C5 as claimed: no more than rate_limit requests are sent in any
\* one-second window [s, s + 1 s).
C5_AtMostRatePerSecond ==
    \A s \in 0..clock :
        RequestsIn(s, s + TicksPerSecond - 1) * RateDen <= rate

\* C6 as claimed: whatever the positive rate, a thread inside acquire()
\* eventually returns from it.
C6_AcquireReturns ==
    \A t \in Threads : (pc[t] \in {"acq", "cs", "nap"}) ~> (pc[t] = "send")

\* ------------------------------------------------------------------------
\* Properties of _fetch_pagespeed
\* ------------------------------------------------------------------------
\* C7: a thread has never issued more requests than it has debited tokens,
\* and when the job has ended it has issued exactly as many.
C7_AcquireBeforeEveryRequest ==
    \A t \in Threads :
        /\ requests[t] <= debits[t]
        /\ (pc[t] = "done") => (requests[t] = debits[t])

\* C7 witness: the job has ended after a first attempt and two retries, each
\* with its own debit.
C7_Witness ==
    /\ pc[Job] = "done"
    /\ requests[Job] = 3
    /\ debits[Job] = 3

\* C8: the job issues at most 3 requests; when it has ended it has issued at
\* least one and has exactly one outcome, a payload or a failure (the failure
\* value, or the decode error of a body that is not JSON), and it has none
\* before; once ended, it issues no request and its outcome stays.
C8_Ended ==
    /\ requests[Job] <= 3
    /\ (pc[Job] = "done") =>
           /\ requests[Job] >= 1
           /\ outcome[Job] # Running
           /\ outcome[Job].ret \in {"json", "None", "raised"}
    /\ (pc[Job] # "done") => (outcome[Job] = Running)

C8_OneTerminalOutcome ==
    /\ []C8_Ended
    /\ [][(pc[Job] = "done") =>
             /\ pc'[Job] = "done"
             /\ requests'[Job] = requests[Job]
             /\ outcome'[Job] = outcome[Job]]_vars

\* C8 witness: the job has ended in the failure value after 3 requests.
C8_Witness ==
    /\ pc[Job] = "done"
    /\ requests[Job] = 3
    /\ outcome[Job] = None

\* the transport's answers so far were all HTTP 429
All429(rs) == \A i \in DOMAIN rs : rs[i].kind = "http" /\ rs[i].status = 429

\* the transport answered HTTP 429 exactly k times and then HTTP 200 with a
\* payload
Then200(rs) ==
    /\ Len(rs) >= 1
    /\ rs[Len(rs)].kind = "http" /\ rs[Len(rs)].status = 200
    /\ ~Has(rs[Len(rs)].body, "not_json")
    /\ All429(SubSeq(rs, 1, Len(rs) - 1))

\* C9: after k < 3 answers 429 and then 200 the job has ended with the body
\* of the 200 as its payload and has called the transport k + 1 times; and
\* request i + 1, following i answers 429, is issued no sooner than
\* RETRY_BASE_DELAY * 2^(i-1) seconds after request i.
C9_Returned ==
    Then200(resps[Job]) =>
        /\ pc[Job] = "done"
        /\ outcome[Job] = Json(resps[Job][Len(resps[Job])].body)
        /\ requests[Job] = Len(resps[Job])
        /\ Len(resps[Job]) <= 3

C9_RetryAfter429 ==
    /\ []C9_Returned
    /\ [][(/\ requests'[Job] = requests[Job] + 1
           /\ requests[Job] >= 1
           /\ All429(resps[Job]))
          => (clock - lastReq >=
                RETRY_BASE_DELAY * Pow2(requests[Job] - 1) * TicksPerSecond)]_vars

\* C9 witness: two answers 429, then 200: the job has ended with the payload
\* after 3 requests.
C9_Witness ==
    /\ Len(resps[Job]) = 3
    /\ Then200(resps[Job])
    /\ pc[Job] = "done"

\* the transport's latest answer is an HTTP error status that is not retryable
LastNotRetryable(rs) ==
    /\ Len(rs) >= 1
    /\ rs[Len(rs)].kind = "http"
    /\ rs[Len(rs)].status >= 400
    /\ rs[Len(rs)].status \notin {400, 429, 500, 502, 503}

Carrying(url, strategy) ==
    {i \in DOMAIN results :
        results[i].url = url /\ results[i].strategy = strategy}

\* the futures were collected in another order than the jobs were submitted
CollectedOutOfOrder ==
    \E i, k \in DOMAIN order : i < k /\ order[i] > order[k]

RecordOf(j) ==
    IF future[j] = Raised THEN NullRecord(jobs[j].url, jobs[j].strategy)
    ELSE future[j].value

FailedJobs == {j \in DOMAIN jobs : fetched[j] = None}

\* C3: a job whose fetch ends in a terminal failure is still emitted: the
\* output has a record with the job's url and strategy whose four category
\* scores are null, whose lab_metrics and field_data are empty and whose
\* opportunities and diagnostics are empty lists.
C3_FailedJobIsEmitted ==
    phase = "returned" =>
        \A j \in FailedJobs :
            \E i \in DOMAIN results :
                /\ results[i].url = jobs[j].url
                /\ results[i].strategy = jobs[j].strategy
                /\ \A cat \in Range(CATEGORIES) : results[i][cat] = Null
                /\ results[i].lab_metrics = EmptyDict
                /\ results[i].field_data = EmptyDict
                /\ results[i].opportunities = <<>>
                /\ results[i].diagnostics = <<>>

\* a returned scan in which one job failed and another delivered scores
C3_Witness ==
    /\ phase = "returned"
    /\ FailedJobs # {}
    /\ \E i \in DOMAIN results : results[i]["performance"] # Null

\* ------------------------------------------------------------------------
\* Further properties of _fetch_pagespeed
\* ------------------------------------------------------------------------
\* the statuses the docstrings call retried: 400, 429 and every 5xx
DocumentedTransient(status) ==
    status \in {400, 429} \/ (status >= 500 /\ status < 600)

\* the latest answer came on a non-final attempt and is an HTTP status the
\* docstrings call retried
LastDocumentedTransient(rs) ==
    /\ Len(rs) >= 1
    /\ Len(rs) < MAX_RETRIES
    /\ rs[Len(rs)].kind = "http"
    /\ DocumentedTransient(rs[Len(rs)].status)

\* C11 as claimed: after an HTTP 5xx, 400 or 429 on a non-final attempt the
\* job has not ended: it is in its back-off or on its way to the next request.
C11_Every5xxIsRetried ==
    LastDocumentedTransient(resps[Job]) => pc[Job] # "done"

\* C12 as claimed: whatever the transport does, the call of _fetch_pagespeed
\* does not end in an exception: its outcome is a payload or the failure value.
C12_FetchNeverRaises ==
    outcome[Job].ret \in {"running", "json", "None"}

\* ------------------------------------------------------------------------
\* Further properties of the scan
\* ------------------------------------------------------------------------
\* the jobs whose future ended in an exception
RaisedJobs == {j \in DOMAIN jobs : future[j] = Raised}

\* the records of the output that are the null record of job j
NullRecordsOf(j) ==
    {i \in DOMAIN results :
        results[i] = NullRecord(jobs[j].url, jobs[j].strategy)}

NullScores(r) == \A cat \in Range(CATEGORIES) : r[cat] = Null
ExtractedScores(r) == \A cat \in Range(CATEGORIES) : r[cat] # Null

\* C14: the scan of three URLs, the first failing transiently twice before
\* it succeeds, the second always failing with an error that is not retried,
\* the third succeeding at once, returns 6 records; exactly the 2 records of
\* the second URL have null scores and the other 4 carry extracted scores.
C14_ThreeUrlScenario ==
    phase = "returned" =>
        /\ Len(results) = 6
        /\ {i \in DOMAIN results : NullScores(results[i])} =
               {i \in DOMAIN results : results[i].url = ScenarioUrls[2]}
        /\ Cardinality({i \in DOMAIN results : NullScores(results[i])}) = 2
        /\ {results[i].strategy :
               i \in {k \in DOMAIN results : NullScores(results[k])}} =
               Range(STRATEGIES)
        /\ Cardinality({i \in DOMAIN results :
                           ExtractedScores(results[i])}) = 4

\* the scenario's scan has returned after its futures completed out of
\* submission order
C14_Witness ==
    /\ phase = "returned"
    /\ csv_full_urls = ScenarioUrls
    /\ Len(results) = 6
    /\ CollectedOutOfOrder

\* ------------------------------------------------------------------------
\* Properties of the validation
\* ------------------------------------------------------------------------
\* the inputs the specification of _sanitise_url calls invalid: empty or
\* blank, a scheme that is neither http nor https, or an empty host
EmptyOrBlank(raw) == IsEmptyText(Strip(raw))
SchemeIsHttp(raw) == ParsedScheme(raw) \in {"http", "https"}
HostIsEmpty(raw) == raw.netloc \in {"", ":80"}
DocumentedInvalid(raw) ==
    EmptyOrBlank(raw) \/ ~SchemeIsHttp(raw) \/ HostIsEmpty(raw)

\* the entries of raw_urls whose line 228 has been executed
Sanitised ==
    {i \in DOMAIN raw_urls : i < vpos \/ (i = vpos /\ vstep # "sanitise")}

\* C17: _sanitise_url returns None for every input that is empty or blank,
\* whose scheme is neither http nor https, or whose host is empty, and
\* returns a URL for every other input.
C17_SanitiseReturnsNoneOrUrl ==
    \A i \in Sanitised :
        IF DocumentedInvalid(raw_urls[i])
        THEN SanitiseUrl(raw_urls[i]) = None
        ELSE SanitiseUrl(raw_urls[i]).ret = "value"

\* the call of validate_urls has ended, by a return or by an exception
ValidateEnded == vstep \in {"returned", "raised"}

\* C16: when validate_urls has ended, every input URL is in exactly one of
\* valid and skipped, so len(valid) + len(skipped) = len(urls), and every
\* skipped entry holds a raw URL of the input and a non-empty reason.
C16_ValidatePartitions ==
    ValidateEnded =>
        /\ Len(valid) + Len(skipped) = Len(raw_urls)
        /\ \A k \in DOMAIN skipped :
              /\ skipped[k].url \in Range(raw_urls)
              /\ skipped[k].reason # <<>>

\* the last URL of the input was a shortlink whose resolution gave back
\* the URL it was given, as it does when the HEAD request fails
LastResolvedUnchanged ==
    /\ vstep = "returned"
    /\ raw_urls # <<>>
    /\ LET c == SanitiseUrl(raw_urls[Len(raw_urls)])
       IN /\ c.ret = "value"
          /\ IsShortlink(c.value)
          /\ resolved = Some(c.value)

\* C18: when the HEAD request of _resolve_redirect fails, the function
\* returns the URL it was given, and validate_urls places that URL
\* unchanged in the valid list.
C18_FailedHeadKeepsUrl ==
    /\ \A u \in RawUrls : ResolveRedirect(u, HeadError) = u
    /\ LastResolvedUnchanged =>
          /\ valid # <<>>
          /\ valid[Len(valid)] = resolved[1]

\* ------------------------------------------------------------------------
\* Properties of the program
\* ------------------------------------------------------------------------
\* the URL passes the validation: _sanitise_url accepts it
PassesValidation(url) == SanitiseUrl(url).ret = "value"

\* the jobs a worker has taken up: their API requests are issued
StartedJobs == {j \in DOMAIN jobs : futState[j] # "queued"}

\* C15: no API request is issued for a URL that fails validation: every
\* job a worker has taken up is for a URL that passes the validation.
C15_NoJobForInvalidUrl ==
    \A j \in StartedJobs : PassesValidation(jobs[j].url)

\* ------------------------------------------------------------------------
\* Properties of the extraction
\* ------------------------------------------------------------------------
\* the jobs whose fetch returned a payload that _scan_single has extracted
ExtractedJobs ==
    {j \in DOMAIN jobs : fetched[j].ret = "json" /\ future[j].ret = "value"}

\* the categories of the payload of job j
CategoriesOf(j) ==
    Get(Get(fetched[j].data, "lighthouseResult", EmptyDict),
        "categories", EmptyDict)

\* the categories of job j's payload that carry a score
ScoredCategories(j) ==
    {cat \in Range(CATEGORIES) :
        Has(CategoriesOf(j), cat) /\ Has(CategoriesOf(j)[cat], "score")}

\* v is the score (in thousandths) rescaled to 0..100: an integer of that
\* range, not above score * 100 and less than 1 below it up to the rounding
\* of the floating point product; 0.873 gives 87
Rescaled(score, v) ==
    /\ v \in 0..100
    /\ score - 10 * v \in 0..10
    /\ score = 873 => v = 87

\* C19: _extract_category_scores treats the four categories independently:
\* a category absent from the payload yields null for that category only,
\* and each category with a score yields the score rescaled to an integer in
\* 0..100, whatever subset of categories is missing.
C19_CategoriesIndependent ==
    \A j \in ExtractedJobs :
        \A cat \in Range(CATEGORIES) :
            /\ ~Has(CategoriesOf(j), cat) => future[j].value[cat] = Null
            /\ cat \in ScoredCategories(j) =>
                  /\ future[j].value[cat] # Null
                  /\ Rescaled(CategoriesOf(j)[cat]["score"],
                              future[j].value[cat][1])

\* a payload without the accessibility category and with a score for each
\* of the other three has been extracted: 0.873 gave 87 and accessibility
\* is null
C19_Witness ==
    \E j \in ExtractedJobs :
        /\ ~Has(CategoriesOf(j), "accessibility")
        /\ ScoredCategories(j) = Range(CATEGORIES) \ {"accessibility"}
        /\ CategoriesOf(j)["performance"]["score"] = 873
        /\ future[j].value["performance"] = Some(87)
        /\ future[j].value["seo"] = Some(28)
        /\ future[j].value["accessibility"] = Null

\* the audit an auditRef of job j's payload refers to
AuditOfRef(j, ref) == Get(Audits(fetched[j].data), ref.id, EmptyDict)

\* the positions of the auditRefs of job j's payload that qualify: group
\* "opportunity" and an audit whose score is not 1
Qualifying(j) ==
    LET refs == AuditRefs(fetched[j].data)
    IN {i \in DOMAIN refs :
           /\ GetOpt(refs[i], "group") = Some("opportunity")
           /\ GetOpt(AuditOfRef(j, refs[i]), "score") # Some(1000)}

\* the savings of the auditRef at position i of job j's payload
SavingsOfRef(j, i) ==
    LET ref == AuditRefs(fetched[j].data)[i]
    IN Opportunity(ref.id, AuditOfRef(j, ref)).savings_ms

\* the positions of the auditRefs that the opportunities of job j report
Reported(j) ==
    {i \in DOMAIN AuditRefs(fetched[j].data) :
        \E k \in DOMAIN future[j].value.opportunities :
            future[j].value.opportunities[k].id =
                AuditRefs(fetched[j].data)[i].id}

\* C20: _extract_opportunities returns at most 10 records, sorted by
\* savings_ms in non-increasing order, one for each of min(10, n) of the n
\* auditRefs of group "opportunity" whose audit score is not 1 and none
\* for another auditRef; no auditRef left out has larger savings than one
\* returned.
C20_TopTenOpportunities ==
    \A j \in ExtractedJobs :
        LET opps == future[j].value.opportunities
        IN /\ Len(opps) <= 10
           /\ \A k \in 1..(Len(opps) - 1) :
                 opps[k].savings_ms >= opps[k + 1].savings_ms
           /\ Reported(j) \subseteq Qualifying(j)
           /\ Cardinality(Reported(j)) = Len(opps)
           /\ Len(opps) = Min(10, Cardinality(Qualifying(j)))
           /\ \A i \in Qualifying(j) \ Reported(j) :
                 \A k \in DOMAIN opps :
                     SavingsOfRef(j, i) <= opps[k].savings_ms

\* a payload with more than 10 qualifying auditRefs, the first of them with
\* smaller savings than a later one, and one auditRef that does not
\* qualify has been extracted to 10 opportunities
C20_Witness ==
    \E j \in ExtractedJobs :
        /\ Cardinality(Qualifying(j)) > 10
        /\ Qualifying(j) # DOMAIN AuditRefs(fetched[j].data)
        /\ \E i \in Qualifying(j) : SavingsOfRef(j, 1) < SavingsOfRef(j, i)
        /\ Len(future[j].value.opportunities) = 10
        /\ \E i \in Qualifying(j) \ Reported(j) : SavingsOfRef(j, i) = 100

\* ------------------------------------------------------------------------
\* Properties of the scan: order, pool and hand-over
\* ------------------------------------------------------------------------
\* C21: for a list of distinct URLs the list scan_urls returns holds, for
\* the i-th URL, the record of (URL, mobile) at index 2 * i and the record
\* of (URL, desktop) at index 2 * i + 1 (indices from 0: positions 2i - 1 and
\* 2i counted from 1), whatever the completion order.
C21_RecordsAtFixedIndices ==
    phase = "returned" =>
        \A i \in DOMAIN urls :
            /\ 2 * i \in DOMAIN results
            /\ results[2 * i - 1].url = urls[i]
            /\ results[2 * i - 1].strategy = "mobile"
            /\ results[2 * i].url = urls[i]
            /\ results[2 * i].strategy = "desktop"

\* a returned scan of two URLs in which every desktop job was collected
\* before the mobile job of its URL
C21_Witness ==
    /\ phase = "returned"
    /\ Len(urls) = 2
    /\ order = <<2, 1, 4, 3>>
    /\ results[1].strategy = "mobile"

\* ------------------------------------------------------------------------
\* Further properties of the limiter
\* ------------------------------------------------------------------------
\* the balance the attempt of the lock holder finds: the balance after the
\* refill of lines 105-109
Found == Refill(rate, tokens, last_refill, clock)

\* C22: always 0 <= tokens <= capacity (= rate); a caller returns from
\* acquire() only in a step that found tokens >= 1.0 and decreased the
\* balance it found by exactly 1.0; an attempt that finds tokens < 1.0 does
\* not decrease the balance; and the balance decreases in no other step.
C22_BalanceInvariant ==
    /\ [](0 <= tokens /\ tokens <= Capacity(rate))
    /\ [][\A t \in Threads :
            /\ (pc[t] # "send" /\ pc'[t] = "send") =>
                  /\ pc[t] = "cs"
                  /\ Found >= OneToken
                  /\ tokens' = Found - OneToken
            /\ (pc[t] = "cs" /\ pc'[t] = "nap") =>
                  /\ Found < OneToken
                  /\ tokens' = Found
                  /\ tokens' >= tokens
            /\ tokens' < tokens =>
                  \E u \in Threads : pc[u] = "cs" /\ pc'[u] = "send"]_vars

\* one caller has returned with a token and another sleeps after an attempt
\* that found a positive balance below 1.0 and left it as it was
C22_Witness ==
    \E t, u \in Threads :
        /\ pc[t] = "nap"
        /\ debits[t] = 0
        /\ debits[u] >= 1
        /\ tokens > 0
        /\ tokens < OneToken

\* the threads inside the `with self._lock:` block of lines 104-114
InCriticalSection == {t \in Threads : pc[t] = "cs"}

\* C23: the refill, the check and the debit of one attempt are one critical
\* section: at most one thread is inside it, and it is the thread that holds
\* the lock; the balance and the refill instant change only in a step of
\* that thread, the one that ends its critical section, and no other thread
\* moves in that step; at most one caller proceeds in a step.
C23_CriticalSection ==
    /\ [](/\ Cardinality(InCriticalSection) <= 1
          /\ \A t \in Threads : (pc[t] = "cs") <=> (lock = t))
    /\ [][(tokens' # tokens \/ last_refill' # last_refill) =>
             \E t \in Threads :
                 /\ lock = t
                 /\ pc[t] = "cs"
                 /\ pc'[t] \in {"send", "nap"}
                 /\ lock' = NoThread
                 /\ \A u \in Threads \ {t} : pc'[u] = pc[u]]_vars
    /\ [][Cardinality({t \in Threads :
                          pc[t] # "send" /\ pc'[t] = "send"}) <= 1]_vars

\* one thread is inside the critical section while the other has reached
\* the `with` statement and waits for the lock
C23_Witness ==
    \E t, u \in Threads :
        /\ pc[t] = "cs"
        /\ lock = t
        /\ pc[u] = "acq"

\* ------------------------------------------------------------------------
\* Properties of the locks
\* ------------------------------------------------------------------------
\* the thread sleeps in the limiter's wait or in a back-off, or its HTTP
\* request is in flight
Blocked(t) == pc[t] \in {"nap", "backoff", "wait"}

\* C24: a thread that sleeps (the limiter's wait or a back-off) or whose
\* request is in flight holds neither the limiter lock nor the results
\* lock; the limiter lock is held only by a thread inside the critical
\* section, which can always complete it, and a thread that has reached the
\* `with` statement while the lock is free can enter.
C24_NoLockWhileBlocked ==
    /\ \A t \in Threads : Blocked(t) => (lock # t /\ results_lock # t)
    /\ \A u \in Threads :
          /\ (lock = u) =>
                /\ pc[u] = "cs"
                /\ (ENABLED AcquireDebitRel(u)) \/ (ENABLED AcquireNap(u))
          /\ (pc[u] = "acq" /\ lock = NoThread) => ENABLED LockAcquire(u)

\* the job sleeps in its back-off while the other worker is inside the
\* limiter's critical section and the main thread appends a record
C24_Witness ==
    /\ pc[Job] = "backoff"
    /\ \E u \in Peers : pc[u] = "cs" /\ lock = u
    /\ results_lock = MainThread

\* ------------------------------------------------------------------------
\* Properties of the retry loop
\* ------------------------------------------------------------------------
\* the seconds of back-off asked for after the attempts before attempt a
RECURSIVE SleptBefore(_)
SleptBefore(a) == IF a <= 1 THEN 0 ELSE SleptBefore(a - 1) + 4 * Pow2(a - 2)

\* the seconds of back-off the job has asked for so far
BackoffTotal ==
    SleptBefore(attempt[Job])
    + (IF pc[Job] = "backoff" THEN 4 * Pow2(attempt[Job] - 1) ELSE 0)

JobAnswered == resps'[Job] # resps[Job]

\* the answer of that step
Answer == resps'[Job][Len(resps'[Job])]

\* the step sends the job into the back-off of its attempt, with no outcome
RetryStep ==
    /\ pc'[Job] = "backoff"
    /\ outcome'[Job] = Running
    /\ attempt'[Job] = attempt[Job]
    /\ wake'[Job] - clock = 4 * Pow2(attempt[Job] - 1) * TicksPerSecond

\* the step ends the job with the failure value and sets no back-off
FailStep ==
    /\ pc'[Job] = "done"
    /\ outcome'[Job] = None
    /\ wake'[Job] = wake[Job]

\* a job that is done sends no request and stays done
DoneIsFinal ==
    pc[Job] = "done" =>
        /\ pc'[Job] = "done"
        /\ requests'[Job] = requests[Job]
        /\ outcome'[Job] = outcome[Job]

\* C26: a connection failure or a timeout on attempt 1 or 2 sends the job
\* into the back-off that status 429 on the same attempt sends it into, and
\* the end of the back-off starts the next attempt; on attempt 3 it ends the
\* job with the failure value, and a job that has ended sends no request.
C26_TransportFailureRetried ==
    /\ [][(JobAnswered /\ attempt[Job] < 3
              /\ (Answer.kind \in {"ConnectionError", "Timeout"}
                    \/ Answer = Http(429, ErrorBody)))
            => RetryStep]_vars
    /\ [][(JobAnswered /\ attempt[Job] = 3
              /\ Answer.kind \in {"ConnectionError", "Timeout"})
            => FailStep]_vars
    /\ [][(pc[Job] = "backoff" /\ pc'[Job] # "backoff") =>
             /\ attempt'[Job] = attempt[Job] + 1
             /\ pc'[Job] = "acq"
             /\ outcome'[Job] = Running]_vars
    /\ [][DoneIsFinal]_vars

\* a connection failure, then a timeout, then a timeout on the final
\* attempt: three requests and the failure value
C26_Witness ==
    /\ resps[Job] = <<ConnectionError, Timeout, Timeout>>
    /\ requests[Job] = 3
    /\ attempt[Job] = 3
    /\ pc[Job] = "done"
    /\ outcome[Job] = None

\* C27: a request error that is neither an HTTP error status, a connection
\* error nor a timeout ends the job with the failure value in the step that
\* receives it, on attempt 1, 2 or 3 alike, with no back-off, and the job
\* sends no request after it.
C27_OtherRequestErrorIsTerminal ==
    /\ [][(JobAnswered /\ Answer.kind = "RequestException") => FailStep]_vars
    /\ [](\A i \in DOMAIN resps[Job] :
            resps[Job][i].kind = "RequestException" =>
                /\ i = Len(resps[Job])
                /\ requests[Job] = i
                /\ pc[Job] = "done"
                /\ outcome[Job] = None)

\* after one retried timeout the second attempt meets another request error
\* and the job has ended with attempts to spare
C27_Witness ==
    /\ resps[Job] = <<Timeout, RequestException>>
    /\ requests[Job] = 2
    /\ attempt[Job] = 2
    /\ pc[Job] = "done"
    /\ outcome[Job] = None

\* the answers with a 2xx status among those the job has received
TwoHundreds ==
    {i \in DOMAIN resps[Job] :
        /\ resps[Job][i].kind = "http"
        /\ resps[Job][i].status \in 200..299}

\* C28 as claimed: the job's outcome is a payload only when one of its
\* attempts received a response with a 2xx status; a response with any other
\* status never ends in a payload for the extractor.
C28_PayloadOnlyFromTwoHundred ==
    outcome[Job].ret = "json" => TwoHundreds # {}

\* ------------------------------------------------------------------------
\* Properties of the pool
\* ------------------------------------------------------------------------
\* C29: at every moment at most max_workers jobs are in progress and no two
\* of them are in the same pool thread; a thread takes a job only when it is
\* inside no job, and a job in progress leaves that state only by running
\* to its end, which completes its future.
C29_PoolBound ==
    /\ [](/\ Cardinality(RunningJobs) <= max_workers
          /\ \A i, j \in RunningJobs : worker[i] = worker[j] => i = j
          /\ \A j \in DOMAIN jobs :
                IF j \in RunningJobs THEN worker[j] \in 1..max_workers
                ELSE worker[j] = 0)
    /\ [][\A j \in DOMAIN jobs :
            /\ (futState[j] # "running" /\ futState'[j] = "running") =>
                  \A i \in RunningJobs : worker[i] # worker'[j]
            /\ futState[j] = "running" =>
                  \/ futState'[j] = "running" /\ future'[j] = Running
                  \/ futState'[j] = "finished" /\ future'[j] # Running]_vars

\* two workers, four jobs: the first job has run to its end and its thread
\* is inside the third job while the other thread is still inside the
\* second; the fourth job waits
C29_Witness ==
    /\ max_workers = 2
    /\ Len(jobs) = 4
    /\ futState[1] \in {"finished", "collected"}
    /\ RunningJobs = {2, 3}
    /\ worker[2] # worker[3]
    /\ futState[4] = "queued"

\* the positions at which as_completed yielded job j
YieldsOf(j) == {k \in DOMAIN order : order[k] = j}

\* the records of the result list that carry the pair of job j
RecordsOf(j) ==
    {i \in DOMAIN results :
        /\ results[i].url = jobs[j].url
        /\ results[i].strategy = jobs[j].strategy}

\* the steps a job's future can take
FutureSteps ==
    {<<"queued", "running">>, <<"running", "finished">>,
     <<"finished", "collected">>}

\* C30: every job is taken up once, by one pool thread, produces one record
\* and that record is appended once: a future only moves from queued to
\* running to finished to collected, a thread enters a job only when it takes
\* it from the queue, a future's value never changes once set, each collected
\* job was yielded once and its record stands at that position, and the
\* list returned holds one record for each job.
C30_EachJobOnce ==
    /\ [](\A j \in DOMAIN jobs :
            /\ Cardinality(YieldsOf(j)) =
                  (IF futState[j] = "collected" THEN 1 ELSE 0)
            /\ (future[j] # Running) <=> (futState[j] \in {"finished", "collected"})
            /\ phase = "pool" =>
                  /\ Len(results) = Len(order)
                  /\ \A k \in YieldsOf(j) : results[k] = CollectedRecord(j)
            /\ phase = "returned" =>
                  /\ Len(results) = Len(jobs)
                  /\ Cardinality(RecordsOf(j)) = 1)
    /\ [][\A j \in DOMAIN jobs :
            /\ futState'[j] # futState[j] =>
                  <<futState[j], futState'[j]>> \in FutureSteps
            /\ (worker'[j] # worker[j] /\ worker'[j] # 0) =>
                  (futState[j] = "queued" /\ futState'[j] = "running")
            /\ future[j] # Running => future'[j] = future[j]]_vars

\* a scan of two URLs with two workers has returned its four records; the
\* third job was the first to be collected
C30_Witness ==
    /\ phase = "returned"
    /\ max_workers = 2
    /\ Len(jobs) = 4
    /\ order = <<3, 1, 2, 4>>
    /\ Len(results) = 4

\* ------------------------------------------------------------------------
\* Properties of the whole scan
\* ------------------------------------------------------------------------
\* every job of the scan has its terminal outcome and its record is collected
AllJobsTerminal ==
    \A j \in DOMAIN jobs :
        /\ futState[j] = "collected"
        /\ fetched[j] # Running
        /\ future[j] # Running

\* C31 as claimed: for every positive rate and every max_workers >= 1, if
\* every HTTP call returns then scan_urls returns, and then every job has
\* reached its terminal outcome.
C31_ScanReturns ==
    /\ <>(phase = "returned")
    /\ [](phase = "returned" => AllJobsTerminal)

\* the record a job has for the answers rs to its own attempts: the null
\* record when the fetch or the extraction fails or raises
OwnRecord(j, rs) ==
    LET ended == ScanSingle(jobs[j].url, jobs[j].strategy, FetchPagespeed(rs))
    IN IF ended = Raised THEN NullRecord(jobs[j].url, jobs[j].strategy)
       ELSE ended.value

\* C32: the record of a job is a function of the transport's answers to its
\* own attempts.  Whatever the other job was answered and however it ended,
\* the step that ends job j sets its future from j's answers alone, no later
\* step changes it, no step of the other job's thread touches it, and the
\* record collected and returned for j is the one of that future.
C32_RecordFromOwnResponses ==
    /\ [][\A j \in DOMAIN jobs :
            /\ (futState[j] = "running" /\ futState'[j] = "finished") =>
                  CollectedRecord(j)' = OwnRecord(j, resps[ThreadOf(worker[j])])
            /\ future[j] # Running => future'[j] = future[j]]_vars
    /\ [](\A j \in DOMAIN jobs :
            /\ \A k \in YieldsOf(j) :
                  phase = "pool" => results[k] = CollectedRecord(j)
            /\ phase = "returned" => results[j] = CollectedRecord(j))

\* the scan has returned; the first job's payload made the extraction raise,
\* the second job was answered 429 and then a full payload, and its record
\* is the one of that payload
C32_Witness ==
    /\ phase = "returned"
    /\ future[1] = Raised
    /\ results[1] = NullRecord(jobs[1].url, jobs[1].strategy)
    /\ results[2] = OwnRecord(2, <<Http(429, ErrorBody), Http(200, SampleBody)>>)
    /\ results[2].performance # Null

\* ------------------------------------------------------------------------
\* Further properties of the extraction
\* ------------------------------------------------------------------------
\* the audit of job j's payload that an opportunity record was made from
AuditOfRecord(j, opp) == Get(Audits(fetched[j].data), opp.id, EmptyDict)

\* C33 as claimed: an opportunity whose audit has details.overallSavingsMs
\* reports that field as its savings_ms, whatever the field's value, and
\* the audit's numericValue only when the field is absent.
C33_StructuredSavingsFirst ==
    \A j \in ExtractedJobs :
        \A k \in DOMAIN future[j].value.opportunities :
            LET opp == future[j].value.opportunities[k]
                details == Get(AuditOfRecord(j, opp), "details", EmptyDict)
            IN Has(details, "overallSavingsMs") =>
                  opp.savings_ms = details["overallSavingsMs"]

\* the sections that a payload lacks
MissingOf(data) ==
    LET lr == Get(data, "lighthouseResult", EmptyDict)
    IN {sec \in Sections :
          CASE sec = "categories" -> ~Has(lr, "categories")
            [] sec = "audits" -> ~Has(lr, "audits")
            [] sec = "loadingExperience" -> ~Has(data, "loadingExperience")
            [] OTHER -> AuditRefs(data) = <<>>}

\* the record of the full payload for job j
FullRecord(j) == DataRecord(jobs[j].url, jobs[j].strategy, FullPayload)

\* every value of the dict is null, or the default False
AllNull(d) == \A k \in DOMAIN d : d[k] \in {Null, Some(FALSE)}

\* C34 as claimed: for the full payload without any subset of its sections
\* the job raises nothing, each extraction whose section is missing (the
\* scores for categories, the lab metrics for audits, the field data for
\* loadingExperience, the opportunities and diagnostics for the auditRefs)
\* gives its empty or null value, and each other extraction gives what it
\* gives on the full payload.
C34_MissingSectionIsLocal ==
    \A j \in DOMAIN jobs :
        (fetched[j].ret = "json" /\ fetched[j].data \in SectionPayloads) =>
            /\ future[j].ret = "value"
            /\ LET rec == future[j].value
                   missing == MissingOf(fetched[j].data)
               IN /\ \A cat \in Range(CATEGORIES) :
                        rec[cat] = IF "categories" \in missing THEN Null
                                   ELSE FullRecord(j)[cat]
                  /\ IF "audits" \in missing THEN AllNull(rec.lab_metrics)
                     ELSE rec.lab_metrics = FullRecord(j).lab_metrics
                  /\ IF "loadingExperience" \in missing
                     THEN AllNull(rec.field_data)
                     ELSE rec.field_data = FullRecord(j).field_data
                  /\ IF "auditRefs" \in missing
                     THEN rec.opportunities = <<>> /\ rec.diagnostics = <<>>
                     ELSE /\ rec.opportunities = FullRecord(j).opportunities
                          /\ rec.diagnostics = FullRecord(j).diagnostics

\* ------------------------------------------------------------------------
\* Further properties of the validation
\* ------------------------------------------------------------------------
\* the entries of raw_urls that _sanitise_url has accepted
Accepted == {i \in Sanitised : SanitiseUrl(raw_urls[i]).ret = "value"}

\* C35 as claimed: the URL _sanitise_url returns for an accepted input has
\* the scheme, the host and the query of the input as given; only the path
\* and the fragment differ.
C35_OnlyPathAndFragmentChange ==
    \A i \in Accepted :
        LET out == SanitiseUrl(raw_urls[i]).value
        IN /\ out.scheme = raw_urls[i].scheme
           /\ out.netloc = raw_urls[i].netloc
           /\ out.query = raw_urls[i].query

\* C36 as claimed: _sanitise_url returns its own output unchanged, so that
\* the second sanitisation of validate_urls keeps a shortlink whose
\* resolution gave back the sanitised URL as it was.
C36_SanitiseIdempotent ==
    /\ \A i \in Accepted :
          SanitiseUrl(SanitiseUrl(raw_urls[i]).value) = SanitiseUrl(raw_urls[i])
    /\ (vstep = "returned" /\ vpos \in Accepted /\ resolved = clean) =>
          (valid # <<>> /\ valid[Len(valid)] = SanitiseUrl(raw_urls[vpos]).value)

\* the list holds no element twice
NoDuplicates(seq) ==
    \A a, b \in DOMAIN seq : seq[a] = seq[b] => a = b

\* C38 as claimed: from an input without duplicates validate_urls builds a
\* valid list without duplicates, so that no (url, strategy) pair of the
\* jobs built from it occurs twice.
C38_ValidHasNoDuplicates ==
    NoDuplicates(raw_urls) => (NoDuplicates(valid) /\ NoDuplicates(Jobs(valid)))

\* ------------------------------------------------------------------------
\* Deadlock freedom of the scan
\* ------------------------------------------------------------------------
\* the threads of a scan
ScanThreads == Threads \cup {MainThread}

\* thread t waits for the limiter lock
WaitsForLimiterLock(t) == t \in Threads /\ pc[t] = "acq" /\ lock # NoThread

\* thread t waits for the results lock: the main thread has a finished
\* future to append and the lock is taken
WaitsForResultsLock(t) ==
    /\ t = MainThread
    /\ results_lock # NoThread
    /\ \E j \in DOMAIN jobs : futState[j] = "finished"
    /\ \A j \in DOMAIN jobs : futState[j] # "yielded"

\* a thread is in a sleep that has not run out
Sleeping == \E t \in Threads : pc[t] \in {"nap", "backoff"} /\ clock < wake[t]

\* C37: no thread holds the limiter lock and the results lock together, no
\* thread waits for one of them while it holds the other, and as long as
\* the scan has not returned some thread can take a step, at once or when
\* the sleep it is in has run out.
C37_DeadlockFree ==
    /\ \A t \in ScanThreads :
          /\ ~(lock = t /\ results_lock = t)
          /\ WaitsForLimiterLock(t) => results_lock # t
          /\ WaitsForResultsLock(t) => lock # t
    /\ lock \in Threads \cup {NoThread}
    /\ results_lock \in {MainThread, NoThread}
    /\ phase = "pool" => ((ENABLED RunStep) \/ Sleeping)

\* the main thread is inside `with _results_lock:` for the first job's
\* record while a pool thread is inside the limiter's critical section for
\* the second job
C37_Witness ==
    /\ results_lock = MainThread
    /\ futState[1] = "yielded"
    /\ futState[2] = "running"
    /\ lock = ThreadOf(worker[2])
    /\ pc[ThreadOf(worker[2])] = "cs"

\* ------------------------------------------------------------------------
\* The completion summary
\* ------------------------------------------------------------------------
\* the jobs whose call of _fetch_pagespeed returned a payload
FetchSuccesses == {j \in DOMAIN jobs : fetched[j].ret = "json"}

\* C39 as claimed: the number the completion summary reports as successful
\* API calls is the number of jobs whose fetch ended with a payload.
C39_SummaryCountsFetchSuccesses ==
    phase = "returned" => SuccessCount(results) = Cardinality(FetchSuccesses)

====
